---- MODULE Spec2Model ----
(***************************************************************************)
(* The Qingping TLV binary codec (custom_components/qingping_cgs1):        *)
(* tlv_encoder.py builds outbound command frames, tlv_decoder.py parses    *)
(* inbound frames.  Byte strings are sequences of integers 0..255, Python  *)
(* dicts are functions whose domain is the set of keys present, Python     *)
(* floats n/10 and n/100 are kept as exact fractions [num, den].           *)
(***************************************************************************)
EXTENDS Integers, Sequences, FiniteSets, TLC

VARIABLES
    packets,      \* the dict handed to tlv_encode, as its (key, data) items in insertion order
    command,      \* the command byte handed to tlv_encode
    message,      \* what tlv_encode returned (or that it raised)
    byte_array,   \* the buffer handed to the decoder
    source,       \* where byte_array came from: "none", "encoder", "bus", "device"
    edits,        \* how many times the transport damaged the buffer
    is_tlv,       \* what is_tlv_format(byte_array) returned
    unpack_data,  \* what tlv_unpack(byte_array) returned
    out_data,     \* what tlv_decode(byte_array) returned
    pc,           \* "build", "encoded", "raw", "received", "decoded", "convert", "block",
                  \* "walk", "unpacked", "history", "listed"
    records,      \* the sub-records a device put in a frame one by one, as (tag, value)
    conv,         \* an integer conversion: its arguments, the bytes made, the integer read back
    sub,          \* a sub-decoder called on a value: which one, the value, what it returned
    signal_sensor, \* the signal-strength sensor's _attr_native_value: <<>> for None, else <<v>>
    calls,        \* the codec calls in progress side by side, each with its own locals
    hass          \* the integration in Home Assistant: its tasks, what it published, its
                  \* status and battery-state sensors, the clock

vars == <<packets, command, message, byte_array, source, edits, is_tlv, unpack_data,
          out_data, pc, records, conv, sub, signal_sensor, calls, hass>>

----------------------------------------------------------------------------
(* Bounds of the model *)

\* most items in the dict handed to tlv_encode
MaxPackets == 2
\* most bytes of a buffer that arrives byte by byte from the bus
MaxRaw == 5
\* most damages (lost tail, overwritten byte) the transport does to one buffer
MaxEdits == 1
\* most bytes in the value of a telemetry sub-record a device sends
MaxValueLen == 24
\* most codec calls in progress side by side
MaxCalls == 3

----------------------------------------------------------------------------
(* Python primitives *)

Min(a, b) == IF a < b THEN a ELSE b

\* b[lo:hi] for 0 <= lo: Python clamps a slice to the sequence, it never raises
Slice(b, lo, hi) == SubSeq(b, lo + 1, Min(hi, Len(b)))

\* raised by b[i] when i is outside b; no byte has this value
IndexError == 0 - 1

\* b[i]
At(b, i) == IF 0 <= i /\ i < Len(b) THEN b[i + 1] ELSE IndexError

\* the empty dict {}
EmptyDict == [k \in {} |-> 0]

\* d[k] = v
Put(d, k, v) == [x \in DOMAIN d \cup {k} |-> IF x = k THEN v ELSE d[x]]

\* None
None == "None"

HexDigits == <<"0", "1", "2", "3", "4", "5", "6", "7", "8", "9", "a", "b", "c", "d", "e", "f">>

\* bytes.hex() written with upper-case digits
RECURSIVE Hex_upper(_)
Hex_upper(b) ==
    IF b = <<>> THEN ""
    ELSE <<"0", "1", "2", "3", "4", "5", "6", "7", "8", "9", "A", "B", "C", "D", "E", "F">>[(Head(b) \div 16) + 1]
         \o <<"0", "1", "2", "3", "4", "5", "6", "7", "8", "9", "A", "B", "C", "D", "E", "F">>[(Head(b) % 16) + 1]
         \o Hex_upper(Tail(b))

RECURSIVE Hex(_)
\* bytes.hex(): two lowercase hexadecimal digits per byte
Hex(b) ==
    IF b = <<>> THEN ""
    ELSE HexDigits[(Head(b) \div 16) + 1] \o HexDigits[(Head(b) % 16) + 1] \o Hex(Tail(b))

RECURSIVE Pow256(_)
Pow256(n) == IF n = 0 THEN 1 ELSE 256 * Pow256(n - 1)

RECURSIVE SumRange(_, _, _)
\* b[lo] + ... + b[hi], by halves
SumRange(b, lo, hi) ==
    IF lo > hi THEN 0
    ELSE IF lo = hi THEN b[lo]
    ELSE SumRange(b, lo, (lo + hi) \div 2) + SumRange(b, ((lo + hi) \div 2) + 1, hi)

\* sum(data)
SumBytes(b) == SumRange(b, 1, Len(b))

----------------------------------------------------------------------------
(* tlv_decoder.py: bytes_to_int_little_endian *)

RECURSIVE LEFrom(_, _)
\* the loop of bytes_to_int_little_endian from index i on: val | byte_array[i] << i*8.
\* Every byte is below 256, so the shifted bytes share no bit and | adds them.
LEFrom(byte_array_, i) ==
    IF i >= Len(byte_array_) THEN 0
    ELSE byte_array_[i + 1] * Pow256(i) + LEFrom(byte_array_, i + 1)

RECURSIVE BEFrom(_, _)
\* the bytes read with the first one most significant
BEFrom(byte_array_, i) ==
    IF i >= Len(byte_array_) THEN 0
    ELSE byte_array_[i + 1] * Pow256(Len(byte_array_) - 1 - i) + BEFrom(byte_array_, i + 1)

\* bytes_to_int_little_endian reading the bytes in big-endian order
bytes_to_int_big_endian(byte_array_) == BEFrom(byte_array_, 0)

bytes_to_int_little_endian(byte_array_) == LEFrom(byte_array_, 0)

----------------------------------------------------------------------------
(* tlv_encoder.py *)

\* the value a raising call hands back in the model: no bytes, raised
Raised(exc) == [raised |-> TRUE, exc |-> exc, value |-> <<>>]
Returned(v) == [raised |-> FALSE, exc |-> None, value |-> v]

RECURSIVE ToBytesLE(_, _)
\* the length low bytes of value, least significant first
ToBytesLE(value, length) ==
    IF length = 0 THEN <<>>
    ELSE <<value % 256>> \o ToBytesLE(value \div 256, length - 1)

\* value needs more than length bytes as an unsigned integer (value >= 256^length),
\* told from the bytes above the lowest length - 1
TooBigUnsigned(value, length) ==
    IF length = 0 THEN value > 0 ELSE value \div Pow256(length - 1) >= 256

\* value needs more than length bytes in two's complement
\* (value < -(256^length)/2 or value > (256^length)/2 - 1); CPython writes -1 in no byte
TooBigSigned(value, length) ==
    IF length = 0 THEN value \notin {0, 0 - 1}
    ELSE value \div Pow256(length - 1) < 0 - 128 \/ value \div Pow256(length - 1) > 127

\* int.to_bytes(length, byteorder='little', signed=signed): OverflowError when the
\* value does not fit, two's complement for a negative signed value (the low bytes of
\* value, % and \div rounding down)
int_to_bytes_little_endian(value, length, signed) ==
    IF signed
    THEN IF TooBigSigned(value, length)
         THEN Raised("OverflowError")
         ELSE Returned(ToBytesLE(value, length))
    ELSE IF value < 0 \/ TooBigUnsigned(value, length)
         THEN Raised("OverflowError")
         ELSE Returned(ToBytesLE(value, length))

\* encode_tlv_packet writing the length high byte first
encode_tlv_packet_big_endian(key, data) ==
    LET length == int_to_bytes_little_endian(Len(data), 2, FALSE)
    IN  IF key < 0 \/ key > 255 THEN Raised("ValueError")
        ELSE IF length.raised THEN length
        ELSE Returned(<<key>> \o <<length.value[2], length.value[1]>> \o data)

\* encode_tlv_packet cutting a value to what the two-byte length field can count
encode_tlv_packet_truncating(key, data) ==
    IF key < 0 \/ key > 255 THEN Raised("ValueError")
    ELSE Returned(<<key>> \o ToBytesLE(Len(data) % 65536, 2)
                  \o SubSeq(data, 1, Len(data) % 65536))

encode_tlv_packet(key, data) ==
    LET length == int_to_bytes_little_endian(Len(data), 2, FALSE)
    IN  IF key < 0 \/ key > 255 THEN Raised("ValueError")
        ELSE IF length.raised THEN length
        ELSE Returned(<<key>> \o length.value \o data)

\* calculate_checksum keeping only the low 8 bits of the sum
calculate_checksum_low_byte(data) ==
    int_to_bytes_little_endian(SumBytes(data) % 256, 2, FALSE)

calculate_checksum(data) ==
    int_to_bytes_little_endian(SumBytes(data) % 65536, 2, FALSE)

RECURSIVE BuildPayload(_, _)
\* the loop of tlv_encode over packets.items(), from item i on
BuildPayload(items, i) ==
    IF i > Len(items) THEN Returned(<<>>)
    ELSE LET one  == encode_tlv_packet(items[i][1], items[i][2])
             rest == BuildPayload(items, i + 1)
         IN  IF one.raised THEN one
             ELSE IF rest.raised THEN rest
             ELSE Returned(one.value \o rest.value)

\* tlv_encode whose length field counts the five header bytes too
tlv_encode_length_with_header(command_, packets_) ==
    LET payload == BuildPayload(packets_, 1)
    IN  IF payload.raised THEN payload
        ELSE IF command_ < 0 \/ command_ > 255 THEN Raised("ValueError")
        ELSE LET length == int_to_bytes_little_endian(Len(payload.value) + 5, 2, FALSE)
             IN  IF length.raised THEN length
                 ELSE LET body     == <<67, 71>> \o <<command_>> \o length.value \o payload.value
                          checksum == calculate_checksum(body)
                      IN  Returned(body \o checksum.value)

\* tlv_encode writing the low 16 bits of the payload's length in the length field
tlv_encode_length_wrapping(command_, packets_) ==
    LET payload == BuildPayload(packets_, 1)
    IN  IF payload.raised THEN payload
        ELSE IF command_ < 0 \/ command_ > 255 THEN Raised("ValueError")
        ELSE LET length   == ToBytesLE(Len(payload.value) % 65536, 2)
                 body     == <<67, 71>> \o <<command_>> \o length \o payload.value
                 checksum == calculate_checksum(body)
             IN  Returned(body \o checksum.value)

tlv_encode(command_, packets_) ==
    LET payload == BuildPayload(packets_, 1)
    IN  IF payload.raised THEN payload
        ELSE IF command_ < 0 \/ command_ > 255 THEN Raised("ValueError")
        ELSE LET length == int_to_bytes_little_endian(Len(payload.value), 2, FALSE)
             IN  IF length.raised THEN length
                 ELSE LET body     == <<67, 71>> \o <<command_>> \o length.value \o payload.value
                          checksum == calculate_checksum(body)
                      IN  Returned(body \o checksum.value)

----------------------------------------------------------------------------
(* tlv_decoder.py: tlv_unpack *)

\* the state of tlv_unpack's loop when it is left; exc is the exception that left it, or None
WalkEnd(product_id, sub_pack_list, index, exc) ==
    [product_id |-> product_id, sub_pack_list |-> sub_pack_list, index |-> index, exc |-> exc]

RECURSIVE WalkWith(_, _, _, _, _, _, _)
\* the while loop of tlv_unpack with its second check changed: a value may pass the
\* declared length by slack bytes, and a value that passes it further ends the walk
\* with the sub-records parsed so far (keep) or with none
WalkWith(slack, keep, payload, length, index, sub_pack_list, product_id) ==
    IF ~(index < length) THEN WalkEnd(product_id, sub_pack_list, index, None)
    ELSE IF index + 3 > length THEN WalkEnd(product_id, sub_pack_list, index, None)
    ELSE LET key     == Hex(Slice(payload, index, index + 1))
             sub_len == bytes_to_int_little_endian(Slice(payload, index + 1, index + 3))
         IN  IF index + 3 + sub_len > length + slack
             THEN IF keep THEN WalkEnd(product_id, sub_pack_list, index, None)
                  ELSE WalkEnd(0, <<>>, index, None)
             ELSE LET sub_payload == Slice(payload, index + 3, index + 3 + sub_len)
                      sub_pack    == [key |-> key, len |-> sub_len, payload |-> sub_payload]
                      pid         == IF key = "38"
                                     THEN (IF Len(sub_payload) > 0 THEN At(sub_payload, 0) ELSE 0)
                                     ELSE product_id
                  IN  WalkWith(slack, keep, payload, length, index + 3 + sub_len,
                               Append(sub_pack_list, sub_pack), pid)

\* the walk dropping what it parsed when a value passes the declared length
Walk_discard_on_overrun(payload, length, index, sub_pack_list, product_id) ==
    WalkWith(0, FALSE, payload, length, index, sub_pack_list, product_id)

\* the walk with its second check off by one
Walk_off_by_one(payload, length, index, sub_pack_list, product_id) ==
    WalkWith(1, TRUE, payload, length, index, sub_pack_list, product_id)

\* the walk without its second check
Walk_no_overrun_check(payload, length, index, sub_pack_list, product_id) ==
    WalkWith(65536, TRUE, payload, length, index, sub_pack_list, product_id)

RECURSIVE Walk_keep_on_empty(_, _, _, _, _)
\* the walk leaving product_id as it is at a 0x38 sub-record without a value byte
Walk_keep_on_empty(payload, length, index, sub_pack_list, product_id) ==
    IF ~(index < length) THEN WalkEnd(product_id, sub_pack_list, index, None)
    ELSE IF index + 3 > length THEN WalkEnd(product_id, sub_pack_list, index, None)
    ELSE LET key     == Hex(Slice(payload, index, index + 1))
             sub_len == bytes_to_int_little_endian(Slice(payload, index + 1, index + 3))
         IN  IF index + 3 + sub_len > length
             THEN WalkEnd(product_id, sub_pack_list, index, None)
             ELSE LET sub_payload == Slice(payload, index + 3, index + 3 + sub_len)
                      sub_pack    == [key |-> key, len |-> sub_len, payload |-> sub_payload]
                      pid         == IF key = "38"
                                     THEN (IF Len(sub_payload) > 0 THEN At(sub_payload, 0)
                                           ELSE product_id)
                                     ELSE product_id
                  IN  IF pid = IndexError
                      THEN WalkEnd(product_id, sub_pack_list, index + 3 + sub_len, "IndexError")
                      ELSE Walk_keep_on_empty(payload, length, index + 3 + sub_len,
                                              Append(sub_pack_list, sub_pack), pid)

RECURSIVE Walk(_, _, _, _, _)
\* the while loop of tlv_unpack: the state at its end, from the state at an iteration's start
Walk(payload, length, index, sub_pack_list, product_id) ==
    IF ~(index < length) THEN WalkEnd(product_id, sub_pack_list, index, None)
    ELSE IF index + 3 > length THEN WalkEnd(product_id, sub_pack_list, index, None)
    ELSE LET key     == Hex(Slice(payload, index, index + 1))
             sub_len == bytes_to_int_little_endian(Slice(payload, index + 1, index + 3))
         IN  IF index + 3 + sub_len > length
             THEN WalkEnd(product_id, sub_pack_list, index, None)
             ELSE LET sub_payload == Slice(payload, index + 3, index + 3 + sub_len)
                      sub_pack    == [key |-> key, len |-> sub_len, payload |-> sub_payload]
                      pid         == IF key = "38"
                                     THEN (IF Len(sub_payload) > 0 THEN At(sub_payload, 0) ELSE 0)
                                     ELSE product_id
                  IN  IF pid = IndexError
                      THEN WalkEnd(product_id, sub_pack_list, index + 3 + sub_len, "IndexError")
                      ELSE Walk(payload, length, index + 3 + sub_len,
                                Append(sub_pack_list, sub_pack), pid)

\* tlv_unpack taking 3 bytes (marker and command) for a whole header
tlv_unpack_short_header(byte_array_) ==
    IF Len(byte_array_) < 3
    THEN Returned([cmd |-> None, productId |-> 0, length |-> 0, subPackList |-> <<>>])
    ELSE LET cmd    == Hex(Slice(byte_array_, 2, 3))
             length == bytes_to_int_little_endian(Slice(byte_array_, 3, 5))
         IN  IF Len(byte_array_) < 5 + length
             THEN Returned([cmd |-> cmd, productId |-> 0, length |-> length, subPackList |-> <<>>])
             ELSE LET end == Walk(Slice(byte_array_, 5, 5 + length), length, 0, <<>>, 0)
                  IN  IF end.exc # None THEN Raised(end.exc)
                      ELSE Returned([cmd |-> cmd, productId |-> end.product_id,
                                     length |-> length, subPackList |-> end.sub_pack_list])

\* tlv_unpack walking whatever bytes are there when the declared length exceeds them
tlv_unpack_clamped(byte_array_) ==
    IF Len(byte_array_) < 5
    THEN Returned([cmd |-> None, productId |-> 0, length |-> 0, subPackList |-> <<>>])
    ELSE LET cmd    == Hex(Slice(byte_array_, 2, 3))
             length == bytes_to_int_little_endian(Slice(byte_array_, 3, 5))
             avail  == Min(length, Len(byte_array_) - 5)
             end    == Walk(Slice(byte_array_, 5, 5 + avail), avail, 0, <<>>, 0)
         IN  IF end.exc # None THEN Raised(end.exc)
             ELSE Returned([cmd |-> cmd, productId |-> end.product_id,
                            length |-> length, subPackList |-> end.sub_pack_list])

\* tlv_unpack returning no sub-record when the two bytes after the payload are not the
\* checksum of the bytes before them
tlv_unpack_checked(byte_array_) ==
    IF Len(byte_array_) < 5
    THEN Returned([cmd |-> None, productId |-> 0, length |-> 0, subPackList |-> <<>>])
    ELSE LET cmd    == Hex(Slice(byte_array_, 2, 3))
             length == bytes_to_int_little_endian(Slice(byte_array_, 3, 5))
         IN  IF Len(byte_array_) < 5 + length
             THEN Returned([cmd |-> cmd, productId |-> 0, length |-> length, subPackList |-> <<>>])
             ELSE IF Slice(byte_array_, 5 + length, 7 + length)
                         # calculate_checksum(Slice(byte_array_, 0, 5 + length)).value
             THEN Returned([cmd |-> cmd, productId |-> 0, length |-> length, subPackList |-> <<>>])
             ELSE LET end == Walk(Slice(byte_array_, 5, 5 + length), length, 0, <<>>, 0)
                  IN  IF end.exc # None THEN Raised(end.exc)
                      ELSE Returned([cmd |-> cmd, productId |-> end.product_id,
                                     length |-> length, subPackList |-> end.sub_pack_list])

tlv_unpack(byte_array_) ==
    IF Len(byte_array_) < 5
    THEN Returned([cmd |-> None, productId |-> 0, length |-> 0, subPackList |-> <<>>])
    ELSE LET cmd    == Hex(Slice(byte_array_, 2, 3))
             length == bytes_to_int_little_endian(Slice(byte_array_, 3, 5))
         IN  IF Len(byte_array_) < 5 + length
             THEN Returned([cmd |-> cmd, productId |-> 0, length |-> length, subPackList |-> <<>>])
             ELSE LET end == Walk(Slice(byte_array_, 5, 5 + length), length, 0, <<>>, 0)
                  IN  IF end.exc # None THEN Raised(end.exc)
                      ELSE Returned([cmd |-> cmd, productId |-> end.product_id,
                                     length |-> length, subPackList |-> end.sub_pack_list])

----------------------------------------------------------------------------
(* tlv_decoder.py: fmt_timestamp *)

Digit(n) == HexDigits[n + 1]
Dec2(n) == Digit((n \div 10) % 10) \o Digit(n % 10)
Dec4(n) == Dec2(n \div 100) \o Dec2(n % 100)

\* datetime.fromtimestamp(timestamp).strftime("%Y-%m-%d %H:%M:%S") for timestamp >= 0,
\* the host's zone being UTC: the proleptic Gregorian date of day timestamp div 86400
fmt_timestamp(timestamp) ==
    LET z   == (timestamp \div 86400) + 719468
        era == z \div 146097
        doe == z - era * 146097
        yoe == (doe - (doe \div 1460) + (doe \div 36524) - (doe \div 146096)) \div 365
        doy == doe - (365 * yoe + (yoe \div 4) - (yoe \div 100))
        mp  == (5 * doy + 2) \div 153
        d   == doy - ((153 * mp + 2) \div 5) + 1
        m   == IF mp < 10 THEN mp + 3 ELSE mp - 9
        y   == yoe + era * 400 + (IF m <= 2 THEN 1 ELSE 0)
        sod == timestamp % 86400
    IN  Dec4(y) \o "-" \o Dec2(m) \o "-" \o Dec2(d) \o " " \o
        Dec2(sod \div 3600) \o ":" \o Dec2((sod \div 60) % 60) \o ":" \o Dec2(sod % 60)

----------------------------------------------------------------------------
(* tlv_decoder.py: the sensor blocks *)

\* the float num / den
Frac(num, den) == [num |-> num, den |-> den]

\* what a sub-decoder hands back in the model when b[i] raised inside it
Thrown == [exception |-> "IndexError"]
\* the same for a sub-decoder that hands back a list
ThrownList == <<Thrown>>

\* decode_th_data splitting th at bit 16 instead of bit 12
decode_th_data_split_16(byte_array_) ==
    IF Len(byte_array_) < 6 THEN EmptyDict
    ELSE LET th      == bytes_to_int_little_endian(Slice(byte_array_, 0, 3))
             battery == At(byte_array_, 5)
         IN  IF battery = IndexError THEN Thrown
             ELSE [dataType    |-> "data",
                   timestamp   |-> 0,
                   time        |-> "",
                   temperature |-> Frac((th \div 65536) - 500, 10),
                   humidity    |-> Frac(th % 65536, 10),
                   pressure    |-> Frac(bytes_to_int_little_endian(Slice(byte_array_, 3, 5)), 100),
                   battery     |-> battery]

decode_th_data(byte_array_) ==
    IF Len(byte_array_) < 6 THEN EmptyDict
    ELSE LET th      == bytes_to_int_little_endian(Slice(byte_array_, 0, 3))
             battery == At(byte_array_, 5)
         IN  IF battery = IndexError THEN Thrown
             ELSE [dataType    |-> "data",
                   timestamp   |-> 0,
                   time        |-> "",
                   temperature |-> Frac((th \div 4096) - 500, 10),
                   humidity    |-> Frac(th % 4096, 10),
                   pressure    |-> Frac(bytes_to_int_little_endian(Slice(byte_array_, 3, 5)), 100),
                   battery     |-> battery]

\* decode_realtime_data taking 10 bytes for enough
decode_realtime_data_short_guard(byte_array_, product_id) ==
    IF Len(byte_array_) < 10 THEN EmptyDict
    ELSE LET timestamp     == bytes_to_int_little_endian(Slice(byte_array_, 0, 4))
             realtime_data == decode_th_data(Slice(byte_array_, 4, Len(byte_array_)))
             rssi          == At(byte_array_, 10)
         IN  IF realtime_data = Thrown \/ rssi = IndexError THEN Thrown
             ELSE Put(Put(Put(Put(realtime_data,
                      "dataType", "event"),
                      "timestamp", timestamp),
                      "time", fmt_timestamp(timestamp)),
                      "rssi", IF rssi >= 128 THEN rssi - 256 ELSE rssi)

\* decode_realtime_data keeping rssi as the unsigned byte
decode_realtime_data_unsigned_rssi(byte_array_, product_id) ==
    IF Len(byte_array_) < 11 THEN EmptyDict
    ELSE LET timestamp     == bytes_to_int_little_endian(Slice(byte_array_, 0, 4))
             realtime_data == decode_th_data(Slice(byte_array_, 4, Len(byte_array_)))
             rssi          == At(byte_array_, 10)
         IN  IF realtime_data = Thrown \/ rssi = IndexError THEN Thrown
             ELSE Put(Put(Put(Put(realtime_data,
                      "dataType", "event"),
                      "timestamp", timestamp),
                      "time", fmt_timestamp(timestamp)),
                      "rssi", rssi)

decode_realtime_data(byte_array_, product_id) ==
    IF Len(byte_array_) < 11 THEN EmptyDict
    ELSE LET timestamp     == bytes_to_int_little_endian(Slice(byte_array_, 0, 4))
             realtime_data == decode_th_data(Slice(byte_array_, 4, Len(byte_array_)))
             rssi          == At(byte_array_, 10)
         IN  IF realtime_data = Thrown \/ rssi = IndexError THEN Thrown
             ELSE Put(Put(Put(Put(realtime_data,
                      "dataType", "event"),
                      "timestamp", timestamp),
                      "time", fmt_timestamp(timestamp)),
                      "rssi", IF rssi >= 128 THEN rssi - 256 ELSE rssi)

RECURSIVE HistoryLoop(_, _, _, _, _)
\* the while loop of decode_history_data: the list (or ThrownList) at its end
HistoryLoop(byte_array_, timestamp, duration, index, i) ==
    IF ~(index + 6 <= Len(byte_array_)) THEN <<>>
    ELSE LET history_data == decode_th_data(Slice(byte_array_, index, index + 6))
             ts           == timestamp + duration * i
             rest         == HistoryLoop(byte_array_, timestamp, duration, index + 6, i + 1)
         IN  IF history_data = Thrown \/ rest = ThrownList THEN ThrownList
             ELSE <<Put(Put(Put(history_data,
                        "timestamp", ts),
                        "dataType", "data"),
                        "time", fmt_timestamp(ts))>> \o rest

\* decode_history_data numbering the readings from 1
decode_history_data_from_one(byte_array_, product_id) ==
    IF Len(byte_array_) < 6 THEN <<>>
    ELSE HistoryLoop(byte_array_,
                     bytes_to_int_little_endian(Slice(byte_array_, 0, 4)),
                     bytes_to_int_little_endian(Slice(byte_array_, 4, 6)), 6, 1)

decode_history_data(byte_array_, product_id) ==
    IF Len(byte_array_) < 6 THEN <<>>
    ELSE HistoryLoop(byte_array_,
                     bytes_to_int_little_endian(Slice(byte_array_, 0, 4)),
                     bytes_to_int_little_endian(Slice(byte_array_, 4, 6)), 6, 0)

\* the two-byte (light: four-byte) little-endian field at byte_array[lo:hi]
Field(byte_array_, lo, hi) == bytes_to_int_little_endian(Slice(byte_array_, lo, hi))

\* decode_sensor_data_v2 reading pm10 before pm25 in a block of sub-type 10
decode_sensor_data_v2_pm_swapped(byte_array_) ==
    IF Len(byte_array_) < 5 THEN EmptyDict
    ELSE LET n           == Len(byte_array_)
             sensor_data == [timestamp |-> Field(byte_array_, 0, 4)]
             sensor_type == At(byte_array_, 4)
             temperature == Frac(Field(byte_array_, 5, 7), 10)
             humidity    == Frac(Field(byte_array_, 7, 9), 10)
         IN  IF sensor_type = IndexError THEN Thrown
             ELSE IF sensor_type = 1 /\ n >= 9
             THEN sensor_data @@ [temperature |-> temperature, humidity |-> humidity]
             ELSE IF sensor_type = 2 /\ n >= 7
             THEN sensor_data @@ [temperature |-> temperature]
             ELSE IF sensor_type = 3 /\ n >= 11
             THEN sensor_data @@ [temperature |-> temperature, humidity |-> humidity,
                                  pressure |-> Frac(Field(byte_array_, 9, 11), 100)]
             ELSE IF sensor_type = 4 /\ n >= 11
             THEN sensor_data @@ [temperature |-> temperature, humidity |-> humidity,
                                  co2 |-> Field(byte_array_, 9, 11)]
             ELSE IF sensor_type = 10 /\ n >= 23
             THEN sensor_data @@ [temperature |-> temperature, humidity |-> humidity,
                                  co2   |-> Field(byte_array_, 9, 11),
                                  pm10  |-> Field(byte_array_, 11, 13),
                                  pm25  |-> Field(byte_array_, 13, 15),
                                  tvoc  |-> Field(byte_array_, 15, 17),
                                  noise |-> Field(byte_array_, 17, 19),
                                  light |-> Field(byte_array_, 19, 23)]
             ELSE sensor_data

\* decode_sensor_data_v2 filling in the temperature of a block cut after it
decode_sensor_data_v2_partial(byte_array_) ==
    IF Len(byte_array_) < 5 THEN EmptyDict
    ELSE LET n           == Len(byte_array_)
             sensor_data == [timestamp |-> Field(byte_array_, 0, 4)]
             sensor_type == At(byte_array_, 4)
             temperature == Frac(Field(byte_array_, 5, 7), 10)
             humidity    == Frac(Field(byte_array_, 7, 9), 10)
         IN  IF sensor_type = IndexError THEN Thrown
             ELSE IF sensor_type = 1 /\ n >= 9
             THEN sensor_data @@ [temperature |-> temperature, humidity |-> humidity]
             ELSE IF sensor_type = 2 /\ n >= 7
             THEN sensor_data @@ [temperature |-> temperature]
             ELSE IF sensor_type = 3 /\ n >= 11
             THEN sensor_data @@ [temperature |-> temperature, humidity |-> humidity,
                                  pressure |-> Frac(Field(byte_array_, 9, 11), 100)]
             ELSE IF sensor_type = 4 /\ n >= 11
             THEN sensor_data @@ [temperature |-> temperature, humidity |-> humidity,
                                  co2 |-> Field(byte_array_, 9, 11)]
             ELSE IF sensor_type = 10 /\ n >= 23
             THEN sensor_data @@ [temperature |-> temperature, humidity |-> humidity,
                                  co2   |-> Field(byte_array_, 9, 11),
                                  pm25  |-> Field(byte_array_, 11, 13),
                                  pm10  |-> Field(byte_array_, 13, 15),
                                  tvoc  |-> Field(byte_array_, 15, 17),
                                  noise |-> Field(byte_array_, 17, 19),
                                  light |-> Field(byte_array_, 19, 23)]
             ELSE IF sensor_type \in {1, 3, 4, 10} /\ n >= 7
             THEN sensor_data @@ [temperature |-> temperature]
             ELSE sensor_data

decode_sensor_data_v2(byte_array_) ==
    IF Len(byte_array_) < 5 THEN EmptyDict
    ELSE LET n           == Len(byte_array_)
             sensor_data == [timestamp |-> Field(byte_array_, 0, 4)]
             sensor_type == At(byte_array_, 4)
             temperature == Frac(Field(byte_array_, 5, 7), 10)
             humidity    == Frac(Field(byte_array_, 7, 9), 10)
         IN  IF sensor_type = IndexError THEN Thrown
             ELSE IF sensor_type = 1 /\ n >= 9
             THEN sensor_data @@ [temperature |-> temperature, humidity |-> humidity]
             ELSE IF sensor_type = 2 /\ n >= 7
             THEN sensor_data @@ [temperature |-> temperature]
             ELSE IF sensor_type = 3 /\ n >= 11
             THEN sensor_data @@ [temperature |-> temperature, humidity |-> humidity,
                                  pressure |-> Frac(Field(byte_array_, 9, 11), 100)]
             ELSE IF sensor_type = 4 /\ n >= 11
             THEN sensor_data @@ [temperature |-> temperature, humidity |-> humidity,
                                  co2 |-> Field(byte_array_, 9, 11)]
             ELSE IF sensor_type = 10 /\ n >= 23
             THEN sensor_data @@ [temperature |-> temperature, humidity |-> humidity,
                                  co2   |-> Field(byte_array_, 9, 11),
                                  pm25  |-> Field(byte_array_, 11, 13),
                                  pm10  |-> Field(byte_array_, 13, 15),
                                  tvoc  |-> Field(byte_array_, 15, 17),
                                  noise |-> Field(byte_array_, 17, 19),
                                  light |-> Field(byte_array_, 19, 23)]
             ELSE sensor_data

----------------------------------------------------------------------------
(* bytes.decode("utf-8") *)

\* how many continuation bytes follow the lead byte b0; -1 when b0 starts no character
Utf8Follow(b0) ==
    IF b0 < 128 THEN 0
    ELSE IF 194 <= b0 /\ b0 <= 223 THEN 1
    ELSE IF 224 <= b0 /\ b0 <= 239 THEN 2
    ELSE IF 240 <= b0 /\ b0 <= 244 THEN 3
    ELSE 0 - 1

\* the values the first continuation byte may take after lead byte b0 (no overlong
\* form, no surrogate, nothing above U+10FFFF)
Utf8Second(b0) ==
    IF b0 = 224 THEN 160..191
    ELSE IF b0 = 237 THEN 128..159
    ELSE IF b0 = 240 THEN 144..191
    ELSE IF b0 = 244 THEN 128..143
    ELSE 128..191

RECURSIVE Utf8From(_, _)
\* the characters (code points) of b from index i on; ok is FALSE for UnicodeDecodeError
Utf8From(b, i) ==
    IF i >= Len(b) THEN [ok |-> TRUE, str |-> <<>>]
    ELSE LET b0 == b[i + 1]
             k  == Utf8Follow(b0)
         IN  IF k < 0 \/ i + k >= Len(b) THEN [ok |-> FALSE, str |-> <<>>]
             ELSE IF k >= 1 /\ b[i + 2] \notin Utf8Second(b0) THEN [ok |-> FALSE, str |-> <<>>]
             ELSE IF \E j \in 2..k : b[i + 1 + j] \notin 128..191 THEN [ok |-> FALSE, str |-> <<>>]
             ELSE LET cp   == IF k = 0 THEN b0
                              ELSE IF k = 1 THEN (b0 % 32) * 64 + (b[i + 2] % 64)
                              ELSE IF k = 2 THEN (b0 % 16) * 4096 + (b[i + 2] % 64) * 64
                                                 + (b[i + 3] % 64)
                              ELSE (b0 % 8) * 262144 + (b[i + 2] % 64) * 4096
                                   + (b[i + 3] % 64) * 64 + (b[i + 4] % 64)
                      rest == Utf8From(b, i + 1 + k)
                  IN  IF rest.ok THEN [ok |-> TRUE, str |-> <<cp>> \o rest.str] ELSE rest

utf8_decode(b) == Utf8From(b, 0)

----------------------------------------------------------------------------
(* tlv_decoder.py: is_tlv_format, tlv_decode *)

\* is_tlv_format looking at the first byte only
is_tlv_format_first_byte(payload) == Len(payload) >= 1 /\ Slice(payload, 0, 1) = <<67>>

is_tlv_format(payload) == Len(payload) >= 2 /\ Slice(payload, 0, 2) = <<67, 71>>

\* the state of tlv_decode's loop: out_data, data_list, and the exception raised in it
DecodeState(out, data_list, exc) == [out |-> out, data_list |-> data_list, exc |-> exc]

\* the version branches without their try/except: UnicodeDecodeError, a ValueError,
\* leaves the loop
PutString_uncaught(st, field, payload) ==
    LET text == utf8_decode(payload)
    IN  IF text.ok THEN DecodeState(Put(st.out, field, text.str), st.data_list, None)
        ELSE DecodeState(st.out, st.data_list, "ValueError")

\* out_data[field] = payload.decode("utf-8"), skipped on UnicodeDecodeError
PutString(st, field, payload) ==
    LET text == utf8_decode(payload)
    IN  IF text.ok THEN DecodeState(Put(st.out, field, text.str), st.data_list, None) ELSE st

\* out_data[field] = payload[0], guarded by len(payload) >= 1
PutFirstByte(st, field, payload) ==
    IF Len(payload) >= 1
    THEN IF At(payload, 0) = IndexError THEN DecodeState(st.out, st.data_list, "IndexError")
         ELSE DecodeState(Put(st.out, field, At(payload, 0)), st.data_list, None)
    ELSE st

\* out_data[field] = bytes_to_int_little_endian(payload), guarded by len(payload) >= 1
PutInteger(st, field, payload) ==
    IF Len(payload) >= 1
    THEN DecodeState(Put(st.out, field, bytes_to_int_little_endian(payload)), st.data_list, None)
    ELSE st

\* the loop body storing what the realtime and history decoders return without the
\* 'if realtime_data:' and 'if history_data:' checks
Interpret_unguarded(st, sub_pack, product_id) ==
    LET key     == sub_pack.key
        payload == sub_pack.payload
    IN  IF key = "14"
        THEN LET realtime_data == decode_realtime_data(payload, product_id)
             IN  IF realtime_data = Thrown THEN DecodeState(st.out, st.data_list, "IndexError")
                 ELSE DecodeState(Put(st.out, "sensorData", <<realtime_data>>), st.data_list, None)
        ELSE IF key = "03"
        THEN LET history_data == decode_history_data(payload, product_id)
             IN  IF history_data = ThrownList THEN DecodeState(st.out, st.data_list, "IndexError")
                 ELSE DecodeState(Put(st.out, "sensorData", history_data), st.data_list, None)
        ELSE IF key = "11" THEN PutString(st, "version", payload)
        ELSE IF key = "34" THEN PutString(st, "versionModel", payload)
        ELSE IF key = "35" THEN PutString(st, "versionMcu", payload)
        ELSE IF key = "04" THEN PutInteger(st, "reportInterval", payload)
        ELSE IF key = "05" THEN PutInteger(st, "collectInterval", payload)
        ELSE IF key = "85"
        THEN LET sensor_data == decode_sensor_data_v2(payload)
             IN  IF sensor_data = Thrown THEN DecodeState(st.out, st.data_list, "IndexError")
                 ELSE IF sensor_data # EmptyDict
                 THEN DecodeState(st.out, Append(st.data_list, sensor_data), None)
                 ELSE st
        ELSE IF key = "1d" THEN PutFirstByte(st, "deviceStatus", payload)
        ELSE IF key = "64" THEN PutFirstByte(st, "battery", payload)
        ELSE IF key = "09" THEN PutFirstByte(st, "battery", payload)
        ELSE IF key = "65" THEN PutInteger(st, "signalStrength", payload)
        ELSE IF key = "2c"
        THEN IF Len(payload) >= 1
             THEN IF At(payload, 0) = IndexError
                  THEN DecodeState(st.out, st.data_list, "IndexError")
                  ELSE DecodeState(Put(Put(st.out,
                                       "usbPluggedIn", At(payload, 0) = 1),
                                       "batteryCharging", At(payload, 0) = 1),
                                   st.data_list, None)
             ELSE st
        ELSE IF key = "61"
        THEN IF Len(payload) = 0
             THEN DecodeState(Put(st.out, "pmModuleConnected", FALSE), st.data_list, None)
             ELSE DecodeState(Put(Put(st.out,
                                  "pmModuleConnected", TRUE),
                                  "pmModuleSerial", Hex(payload)),
                              st.data_list, None)
        ELSE st

\* the loop body taking every non-zero byte of a charging flag for charging
Interpret_charging_nonzero(st, sub_pack, product_id) ==
    LET key     == sub_pack.key
        payload == sub_pack.payload
    IN  IF key = "14"
        THEN LET realtime_data == decode_realtime_data(payload, product_id)
             IN  IF realtime_data = Thrown THEN DecodeState(st.out, st.data_list, "IndexError")
                 ELSE IF realtime_data # EmptyDict
                 THEN DecodeState(Put(st.out, "sensorData", <<realtime_data>>), st.data_list, None)
                 ELSE st
        ELSE IF key = "03"
        THEN LET history_data == decode_history_data(payload, product_id)
             IN  IF history_data = ThrownList THEN DecodeState(st.out, st.data_list, "IndexError")
                 ELSE IF history_data # <<>>
                 THEN DecodeState(Put(st.out, "sensorData", history_data), st.data_list, None)
                 ELSE st
        ELSE IF key = "11" THEN PutString(st, "version", payload)
        ELSE IF key = "34" THEN PutString(st, "versionModel", payload)
        ELSE IF key = "35" THEN PutString(st, "versionMcu", payload)
        ELSE IF key = "04" THEN PutInteger(st, "reportInterval", payload)
        ELSE IF key = "05" THEN PutInteger(st, "collectInterval", payload)
        ELSE IF key = "85"
        THEN LET sensor_data == decode_sensor_data_v2(payload)
             IN  IF sensor_data = Thrown THEN DecodeState(st.out, st.data_list, "IndexError")
                 ELSE IF sensor_data # EmptyDict
                 THEN DecodeState(st.out, Append(st.data_list, sensor_data), None)
                 ELSE st
        ELSE IF key = "1d" THEN PutFirstByte(st, "deviceStatus", payload)
        ELSE IF key = "64" THEN PutFirstByte(st, "battery", payload)
        ELSE IF key = "09" THEN PutFirstByte(st, "battery", payload)
        ELSE IF key = "65" THEN PutInteger(st, "signalStrength", payload)
        ELSE IF key = "2c"
        THEN IF Len(payload) >= 1
             THEN IF At(payload, 0) = IndexError
                  THEN DecodeState(st.out, st.data_list, "IndexError")
                  ELSE DecodeState(Put(Put(st.out,
                                       "usbPluggedIn", At(payload, 0) = 1),
                                       "batteryCharging", At(payload, 0) # 0),
                                   st.data_list, None)
             ELSE st
        ELSE IF key = "61"
        THEN IF Len(payload) = 0
             THEN DecodeState(Put(st.out, "pmModuleConnected", FALSE), st.data_list, None)
             ELSE DecodeState(Put(Put(st.out,
                                  "pmModuleConnected", TRUE),
                                  "pmModuleSerial", Hex(payload)),
                              st.data_list, None)
        ELSE st

\* one iteration of tlv_decode's loop over subPackList: the if/elif chain on key
Interpret(st, sub_pack, product_id) ==
    LET key     == sub_pack.key
        payload == sub_pack.payload
    IN  IF key = "14"
        THEN LET realtime_data == decode_realtime_data(payload, product_id)
             IN  IF realtime_data = Thrown THEN DecodeState(st.out, st.data_list, "IndexError")
                 ELSE IF realtime_data # EmptyDict
                 THEN DecodeState(Put(st.out, "sensorData", <<realtime_data>>), st.data_list, None)
                 ELSE st
        ELSE IF key = "03"
        THEN LET history_data == decode_history_data(payload, product_id)
             IN  IF history_data = ThrownList THEN DecodeState(st.out, st.data_list, "IndexError")
                 ELSE IF history_data # <<>>
                 THEN DecodeState(Put(st.out, "sensorData", history_data), st.data_list, None)
                 ELSE st
        ELSE IF key = "11" THEN PutString(st, "version", payload)
        ELSE IF key = "34" THEN PutString(st, "versionModel", payload)
        ELSE IF key = "35" THEN PutString(st, "versionMcu", payload)
        ELSE IF key = "04" THEN PutInteger(st, "reportInterval", payload)
        ELSE IF key = "05" THEN PutInteger(st, "collectInterval", payload)
        ELSE IF key = "85"
        THEN LET sensor_data == decode_sensor_data_v2(payload)
             IN  IF sensor_data = Thrown THEN DecodeState(st.out, st.data_list, "IndexError")
                 ELSE IF sensor_data # EmptyDict
                 THEN DecodeState(st.out, Append(st.data_list, sensor_data), None)
                 ELSE st
        ELSE IF key = "1d" THEN PutFirstByte(st, "deviceStatus", payload)
        ELSE IF key = "64" THEN PutFirstByte(st, "battery", payload)
        ELSE IF key = "09" THEN PutFirstByte(st, "battery", payload)
        ELSE IF key = "65" THEN PutInteger(st, "signalStrength", payload)
        ELSE IF key = "2c"
        THEN IF Len(payload) >= 1
             THEN IF At(payload, 0) = IndexError
                  THEN DecodeState(st.out, st.data_list, "IndexError")
                  ELSE DecodeState(Put(Put(st.out,
                                       "usbPluggedIn", At(payload, 0) = 1),
                                       "batteryCharging", At(payload, 0) = 1),
                                   st.data_list, None)
             ELSE st
        ELSE IF key = "61"
        THEN IF Len(payload) = 0
             THEN DecodeState(Put(st.out, "pmModuleConnected", FALSE), st.data_list, None)
             ELSE DecodeState(Put(Put(st.out,
                                  "pmModuleConnected", TRUE),
                                  "pmModuleSerial", Hex(payload)),
                              st.data_list, None)
        ELSE st

\* the keys tlv_decode's if/elif chain names
InterpretedKeys ==
    {"03", "04", "05", "09", "11", "14", "1d", "2c", "34", "35", "61", "64", "65", "85"}

RECURSIVE DecodeLoop_stop_at_unknown(_, _, _, _)
\* tlv_decode's loop leaving at the first key the if/elif chain does not name
DecodeLoop_stop_at_unknown(sub_pack_list, i, st, product_id) ==
    IF i > Len(sub_pack_list) \/ st.exc # None THEN st
    ELSE IF sub_pack_list[i].key \notin InterpretedKeys \cup {"38"} THEN st
    ELSE DecodeLoop_stop_at_unknown(sub_pack_list, i + 1,
                                    Interpret(st, sub_pack_list[i], product_id), product_id)

RECURSIVE DecodeLoop(_, _, _, _)
\* tlv_decode's loop over subPackList from item i on; an exception leaves it at once
DecodeLoop(sub_pack_list, i, st, product_id) ==
    IF i > Len(sub_pack_list) \/ st.exc # None THEN st
    ELSE DecodeLoop(sub_pack_list, i + 1, Interpret(st, sub_pack_list[i], product_id), product_id)

\* tlv_decode keeping the sensorData of a realtime or history sub-record when there is one
tlv_decode_try_list_first(byte_array_) ==
    IF Len(byte_array_) < 2 \/ Slice(byte_array_, 0, 2) # <<67, 71>> THEN Returned(EmptyDict)
    ELSE LET unpack == tlv_unpack(byte_array_)
         IN  IF unpack.raised THEN unpack
             ELSE LET end == DecodeLoop(unpack.value.subPackList, 1,
                                        DecodeState([productId |-> unpack.value.productId],
                                                    <<>>, None),
                                        unpack.value.productId)
                  IN  IF end.exc # None THEN Raised(end.exc)
                      ELSE IF Len(end.data_list) > 0 /\ "sensorData" \notin DOMAIN end.out
                      THEN Returned(Put(end.out, "sensorData", end.data_list))
                      ELSE Returned(end.out)

\* tlv_decode starting out_data with a battery of 0 and an empty sensorData
tlv_decode_try_with_defaults(byte_array_) ==
    IF Len(byte_array_) < 2 \/ Slice(byte_array_, 0, 2) # <<67, 71>> THEN Returned(EmptyDict)
    ELSE LET unpack == tlv_unpack(byte_array_)
         IN  IF unpack.raised THEN unpack
             ELSE LET end == DecodeLoop(unpack.value.subPackList, 1,
                                        DecodeState([productId |-> unpack.value.productId,
                                                     battery |-> 0, sensorData |-> <<>>],
                                                    <<>>, None),
                                        unpack.value.productId)
                  IN  IF end.exc # None THEN Raised(end.exc)
                      ELSE IF Len(end.data_list) > 0
                      THEN Returned(Put(end.out, "sensorData", end.data_list))
                      ELSE Returned(end.out)

\* the body of tlv_decode's try block: what it returns, or the exception that leaves it
tlv_decode_try(byte_array_) ==
    IF Len(byte_array_) < 2 \/ Slice(byte_array_, 0, 2) # <<67, 71>> THEN Returned(EmptyDict)
    ELSE LET unpack == tlv_unpack(byte_array_)
         IN  IF unpack.raised THEN unpack
             ELSE LET end == DecodeLoop(unpack.value.subPackList, 1,
                                        DecodeState([productId |-> unpack.value.productId],
                                                    <<>>, None),
                                        unpack.value.productId)
                  IN  IF end.exc # None THEN Raised(end.exc)
                      ELSE IF Len(end.data_list) > 0
                      THEN Returned(Put(end.out, "sensorData", end.data_list))
                      ELSE Returned(end.out)

\* the exception classes "except Exception" catches
Caught == {"IndexError", "OverflowError", "ValueError", "KeyError", "TypeError"}

\* tlv_decode: the try block, and {} from the except clause; caught names the
\* exception the except clause handled, None when there was none
tlv_decode(byte_array_) ==
    LET body == tlv_decode_try(byte_array_)
    IN  IF body.raised /\ body.exc \in Caught
        THEN [raised |-> FALSE, exc |-> None, value |-> EmptyDict, caught |-> body.exc]
        ELSE [raised |-> body.raised, exc |-> body.exc, value |-> body.value, caught |-> None]

----------------------------------------------------------------------------
(* The codec in use: a command dict is built, encoded and published; a      *)
(* buffer reaches the decoder from the encoder, or byte by byte from the    *)
(* bus, possibly damaged on the way; the decoder is applied to it.          *)

\* the command bytes callers encode with
Commands == {2, 50}
\* the keys and values callers put in a command dict
EncKeys == {4, 64, 65}
EncData == {<<>>, <<1>>}
\* a value long enough for the byte sum of a frame to pass 65535
LongData == [i \in 1..260 |-> 255]
\* the bytes of a buffer that arrives byte by byte
RawBytes == {0, 67, 71}
\* the bytes the transport writes over a byte of the buffer
NoiseBytes == {0, 1, 3}

\* the position of key among the items of a dict, 0 when it is not a key
KeyIndex(items, key) ==
    IF \E i \in 1..Len(items) : items[i][1] = key
    THEN CHOOSE i \in 1..Len(items) : items[i][1] = key
    ELSE 0

\* packets[key] = data: a new key goes last, a key already present keeps its place
DictSet(items, key, data) ==
    IF KeyIndex(items, key) = 0 THEN Append(items, <<key, data>>)
    ELSE [items EXCEPT ![KeyIndex(items, key)] = <<key, data>>]

NotCalled == [raised |-> FALSE, exc |-> None, value |-> EmptyDict]
\* no integer conversion was asked for
NoConversion == [value |-> 0, length |-> 0, signed |-> FALSE, bytes |-> Returned(<<>>), back |-> 0]
\* no sub-decoder was called on its own
NoSubDecoder == [fn |-> None, byte_array |-> <<>>, result |-> EmptyDict]
\* the calls that may be in progress side by side
CallIds == 1..MaxCalls
\* the locals of a call that has not begun
Idle ==
    [fn |-> None, arg |-> <<>>, at |-> "idle", sub_pack_list |-> <<>>, product_id |-> 0,
     index |-> 0, out |-> EmptyDict, data_list |-> <<>>, exc |-> None, payload |-> <<>>,
     length |-> 0, i |-> 0, result |-> NotCalled]
\* no call is in progress
NoCalls == [c \in CallIds |-> Idle]
\* the setting keys of publish_setting_change, each with the device's mac one publish_key
SettingKeys == {"temperature_unit", "co2_asc"}
\* the clock when the integration is loaded, in seconds: int(time.time()) is far
\* beyond every timeout
StartTime == 1000
\* the integration as it is loaded: _pending_setting_publishes = {}, no task created,
\* nothing published, no status sensor yet (created tells whether __init__ ran, attached
\* whether self.hass is set; native_value, last_timestamp and last_status are its
\* _attr_native_value, _last_timestamp and _last_status as __init__ sets them),
\* config_tasks counts the tasks created for _publish_config_on_status_change, event is
\* what happened last; no publish_config call yet (config_at is where the call is,
\* attempt its loop variable, checks the checks made by the running
\* ensure_mqtt_connected, config_log what the call did so far); the battery-state sensor reads
\* "Discharging" and is not attached, the config entry has the coordinator's report mode,
\* no charging flag was received (latest_flag is the flag of the last of the
\* charging_messages messages), no automatic switch was created, no command sent
NoHass ==
    [pending        |-> [k \in SettingKeys |-> 0],
     tasks          |-> <<>>,
     published      |-> <<>>,
     now            |-> StartTime,
     model          |-> "CGS1",
     report_mode    |-> None,
     created        |-> FALSE,
     attached       |-> FALSE,
     native_value   |-> "offline",
     last_timestamp |-> 0,
     last_status    |-> "online",
     config_tasks   |-> 0,
     event          |-> "none",
     config_calls   |-> 0,
     config_at      |-> "idle",
     attempt        |-> 0,
     checks         |-> 0,
     config_log     |-> <<>>,
     battery_attached  |-> FALSE,
     battery_value     |-> "Discharging",
     entry_mode        |-> None,
     charging_messages |-> 0,
     latest_flag       |-> FALSE,
     switch_tasks      |-> <<>>,
     switch_published  |-> <<>>]

Init ==
    /\ packets = <<>>
    /\ command = 0
    /\ message = Returned(<<>>)
    /\ byte_array = <<>>
    /\ source = "none"
    /\ edits = 0
    /\ is_tlv = FALSE
    /\ unpack_data = NotCalled
    /\ out_data = [raised |-> FALSE, exc |-> None, value |-> EmptyDict, caught |-> None]
    /\ pc = "build"
    /\ records = <<>>
    /\ conv = NoConversion
    /\ sub = NoSubDecoder
    /\ signal_sensor = <<>>
    /\ calls = NoCalls
    /\ hass = NoHass

\* a command builder fills the dict: packets[key] = data
SetPacket(key, data) ==
    /\ pc = "build"
    /\ source = "none"
    /\ KeyIndex(packets, key) # 0 \/ Len(packets) < MaxPackets
    /\ packets' = DictSet(packets, key, data)
    /\ UNCHANGED <<command, message, byte_array, source, edits, is_tlv, unpack_data, out_data, pc>>
    /\ UNCHANGED <<records, conv, sub, signal_sensor, calls, hass>>

\* message = tlv_encode(cmd, packets)
Encode(cmd) ==
    /\ pc = "build"
    /\ source = "none"
    /\ command' = cmd
    /\ message' = tlv_encode(cmd, packets)
    /\ pc' = "encoded"
    /\ UNCHANGED <<packets, byte_array, source, edits, is_tlv, unpack_data, out_data>>
    /\ UNCHANGED <<records, conv, sub, signal_sensor, calls, hass>>

\* the encoded frame is published and reaches a decoder
Publish ==
    /\ pc = "encoded"
    /\ ~message.raised
    /\ byte_array' = message.value
    /\ source' = "encoder"
    /\ pc' = "received"
    /\ UNCHANGED <<packets, command, message, edits, is_tlv, unpack_data, out_data>>
    /\ UNCHANGED <<records, conv, sub, signal_sensor, calls, hass>>

\* one more byte of a buffer from the bus
ReceiveRaw(b) ==
    /\ \/ pc = "build" /\ packets = <<>>
       \/ pc = "raw"
    /\ Len(byte_array) < MaxRaw
    /\ byte_array' = Append(byte_array, b)
    /\ source' = "bus"
    /\ pc' = "raw"
    /\ UNCHANGED <<packets, command, message, edits, is_tlv, unpack_data, out_data>>
    /\ UNCHANGED <<records, conv, sub, signal_sensor, calls, hass>>

\* the transport delivers only the first n bytes
Lose(n) ==
    /\ pc = "received"
    /\ edits < MaxEdits
    /\ n < Len(byte_array)
    /\ byte_array' = SubSeq(byte_array, 1, n)
    /\ edits' = edits + 1
    /\ UNCHANGED <<packets, command, message, source, is_tlv, unpack_data, out_data, pc>>
    /\ UNCHANGED <<records, conv, sub, signal_sensor, calls, hass>>

\* the transport delivers byte i (from 1) as b
Corrupt(i, b) ==
    /\ pc = "received"
    /\ edits < MaxEdits
    /\ i \in 1..Len(byte_array)
    /\ byte_array[i] # b
    /\ byte_array' = [byte_array EXCEPT ![i] = b]
    /\ edits' = edits + 1
    /\ UNCHANGED <<packets, command, message, source, is_tlv, unpack_data, out_data, pc>>
    /\ UNCHANGED <<records, conv, sub, signal_sensor, calls, hass>>

\* _handle_tlv_message handing the sensor the signalStrength field as it is
signal_strength_value_unadjusted(payload, decoded) ==
    IF decoded = EmptyDict THEN <<>>
    ELSE LET cmd         == IF Len(payload) > 2 THEN At(payload, 2) ELSE 0
             sensor_data == IF "sensorData" \in DOMAIN decoded THEN decoded.sensorData ELSE <<>>
         IN  IF sensor_data = <<>> THEN <<>>
             ELSE LET data == IF cmd = 66 /\ Len(sensor_data) > 1
                              THEN sensor_data[Len(sensor_data)]
                              ELSE sensor_data[1]
                  IN  IF "signalStrength" \in DOMAIN decoded THEN <<decoded.signalStrength>>
                      ELSE IF "rssi" \in DOMAIN data THEN <<data.rssi>>
                      ELSE <<>>

\* sensor.py, _handle_tlv_message: the value it hands the signal-strength sensor for the
\* buffer payload that decoded to decoded, as <<value>>, or <<>> when it hands it none.
\* Nothing is handed when the result is empty or holds no sensor data; the reading looked
\* at is the last one for command 0x42 with several readings, else the first.
signal_strength_value(payload, decoded) ==
    IF decoded = EmptyDict THEN <<>>
    ELSE LET cmd         == IF Len(payload) > 2 THEN At(payload, 2) ELSE 0
             sensor_data == IF "sensorData" \in DOMAIN decoded THEN decoded.sensorData ELSE <<>>
         IN  IF sensor_data = <<>> THEN <<>>
             ELSE LET data == IF cmd = 66 /\ Len(sensor_data) > 1
                              THEN sensor_data[Len(sensor_data)]
                              ELSE sensor_data[1]
                  IN  IF "signalStrength" \in DOMAIN decoded
                      THEN IF decoded.signalStrength >= 128
                           THEN <<decoded.signalStrength - 256>>
                           ELSE <<decoded.signalStrength>>
                      ELSE IF "rssi" \in DOMAIN data THEN <<data.rssi>>
                      ELSE <<>>

\* update_from_latest_data(value) of the signal-strength sensor, called when value is
\* not None: _attr_native_value = int(value)
update_from_latest_data(native_value, value) == IF value = <<>> THEN native_value ELSE value

\* the subscriber's calls on the buffer: is_tlv_format, tlv_unpack and, in
\* _handle_tlv_message, tlv_decode and the update of the signal-strength sensor
Decode ==
    /\ pc \in {"raw", "received"}
    /\ is_tlv' = is_tlv_format(byte_array)
    /\ unpack_data' = tlv_unpack(byte_array)
    /\ out_data' = tlv_decode(byte_array)
    /\ signal_sensor' = IF is_tlv'
                        THEN update_from_latest_data(signal_sensor,
                                 signal_strength_value(byte_array, out_data'.value))
                        ELSE signal_sensor
    /\ pc' = "decoded"
    /\ UNCHANGED <<packets, command, message, byte_array, source, edits, records, conv, sub,
                   calls, hass>>

Next ==
    \/ \E key \in EncKeys, data \in EncData : SetPacket(key, data)
    \/ \E cmd \in Commands : Encode(cmd)
    \/ Publish
    \/ \E b \in RawBytes : ReceiveRaw(b)
    \/ \E n \in 0..Len(byte_array) : Lose(n)
    \/ \E i \in 1..Len(byte_array), b \in NoiseBytes : Corrupt(i, b)
    \/ Decode

Spec == Init /\ [][Next]_vars

----------------------------------------------------------------------------
(* The encoder with values of two bytes and of 260 bytes (long enough for   *)
(* the length field's high byte and for the checksum to wrap), and the      *)
(* decoder applied to its undamaged frames.  The long value goes under the  *)
(* keys tlv_decode does not interpret.                                      *)

NextEncode ==
    \/ \E key \in EncKeys, data \in EncData \cup {<<15, 0>>} : SetPacket(key, data)
    \/ \E key \in EncKeys \ {4} : SetPacket(key, LongData)
    \/ \E cmd \in Commands : Encode(cmd)
    \/ Publish
    \/ Decode

SpecEncode == Init /\ [][NextEncode]_vars

----------------------------------------------------------------------------
(* The encoder with a value one byte longer than the two-byte length field  *)
(* can count.                                                               *)

\* the largest length the two-byte length field of a sub-record holds
MaxU16 == 65535
\* a value of MaxU16 + 1 bytes
HugeData == [i \in 1..(MaxU16 + 1) |-> 0]

NextOverflow ==
    \/ \E key \in EncKeys, data \in EncData \cup {HugeData} : SetPacket(key, data)
    \/ \E cmd \in Commands : Encode(cmd)
    \/ Publish

SpecOverflow == Init /\ [][NextOverflow]_vars

----------------------------------------------------------------------------
(* The integer conversions on their own: int_to_bytes_little_endian on a    *)
(* value and a width, bytes_to_int_little_endian on the bytes it made.      *)

\* the values converted: around each power of 256 and of 128, and the largest and
\* smallest 32-bit ones
IntValues ==
    {0, 1, 127, 128, 255, 256, 257, 32767, 32768, 65535, 65536, 8388607, 8388608,
     16777215, 16777216, 19088743, 2147483647,
     0 - 1, 0 - 128, 0 - 129, 0 - 32768, 0 - 32769, 0 - 2147483647}
\* the widths converted to
Widths == {1, 2, 3, 4}

InitInt ==
    /\ packets = <<>>
    /\ command = 0
    /\ message = Returned(<<>>)
    /\ byte_array = <<>>
    /\ source = "none"
    /\ edits = 0
    /\ is_tlv = FALSE
    /\ unpack_data = NotCalled
    /\ out_data = [raised |-> FALSE, exc |-> None, value |-> EmptyDict, caught |-> None]
    /\ pc = "convert"
    /\ records = <<>>
    /\ conv \in {[value |-> v, length |-> n, signed |-> s, bytes |-> Returned(<<>>), back |-> 0] :
                    v \in IntValues, n \in Widths, s \in BOOLEAN}
    /\ sub = NoSubDecoder
    /\ signal_sensor = <<>>
    /\ calls = NoCalls
    /\ hass = NoHass

\* bytes = int_to_bytes_little_endian(value, length, signed)
ToBytes ==
    /\ pc = "convert"
    /\ conv' = [conv EXCEPT !.bytes = int_to_bytes_little_endian(conv.value, conv.length,
                                                                 conv.signed)]
    /\ pc' = "converted"
    /\ UNCHANGED <<packets, command, message, byte_array, source, edits, is_tlv, unpack_data,
                   out_data, records, sub, signal_sensor, calls, hass>>

\* back = bytes_to_int_little_endian(bytes), for bytes that read as less than 2^31 (the
\* integers of the model end there)
FromBytes ==
    /\ pc = "converted"
    /\ ~conv.bytes.raised
    /\ IF Len(conv.bytes.value) < 4 THEN TRUE ELSE conv.bytes.value[4] < 128
    /\ conv' = [conv EXCEPT !.back = bytes_to_int_little_endian(conv.bytes.value)]
    /\ pc' = "read"
    /\ UNCHANGED <<packets, command, message, byte_array, source, edits, is_tlv, unpack_data,
                   out_data, records, sub, signal_sensor, calls, hass>>

NextInt ==
    \/ ToBytes
    \/ FromBytes

SpecInt == InitInt /\ [][NextInt]_vars

----------------------------------------------------------------------------
(* Telemetry: a device sends a frame whose first sub-record is a sensor     *)
(* block of any length, the transport may lose its tail, the decoder is     *)
(* applied to it.  The firmware is not part of the repository: its frames   *)
(* follow the layout tlv_unpack reads.                                      *)

\* a composite sensor block (tag 0x85 layout) of sub-type sensor_type
BlockTemplate(sensor_type) ==
    <<16, 32, 48, 64, sensor_type, 250, 0, 194, 1, 88, 2, 12, 0, 20, 0, 5, 0, 40, 0,
      44, 1, 0, 0, 119, 1>>
\* a realtime reading (tag 0x14 layout): timestamp, TH block, rssi 0x9c
RealtimeTemplate ==
    <<0, 94, 208, 101, 136, 246, 1, 16, 39, 85, 156, 0, 0, 0, 0, 0, 0, 0, 0, 0, 0, 0, 0, 0, 0>>
\* a history block (tag 0x03 layout): timestamp, duration 60, three TH blocks, a stray byte
HistoryTemplate ==
    <<0, 94, 208, 101, 60, 0, 136, 246, 1, 16, 39, 85, 137, 246, 1, 17, 39, 84,
      138, 246, 1, 18, 39, 83, 7>>

\* the sensor blocks a device sends, as (tag, value): composite blocks of every
\* sub-type under 0x85, the realtime and the history layout under 0x14 and 0x03
DeviceBlocks ==
    {<<133, BlockTemplate(t)>> : t \in {1, 2, 3, 4, 10, 7}}
    \cup {<<20, RealtimeTemplate>>, <<3, HistoryTemplate>>,
          <<20, HistoryTemplate>>, <<3, RealtimeTemplate>>}
\* what may follow the sensor block in the frame: nothing, or battery percent
DeviceTails == {<<>>, <<<<100, <<85>>>>>>}

RECURSIVE WirePayload(_)
\* the sub-records on the wire: tag, length (u16 little-endian), value
WirePayload(records_) ==
    IF records_ = <<>> THEN <<>>
    ELSE <<Head(records_)[1], Len(Head(records_)[2]) % 256, Len(Head(records_)[2]) \div 256>>
         \o Head(records_)[2] \o WirePayload(Tail(records_))

\* a frame as the device sends it: marker, command, payload length, payload, checksum
DeviceFrame(cmd, records_) ==
    LET payload == WirePayload(records_)
        body    == <<67, 71, cmd, Len(payload) % 256, Len(payload) \div 256>> \o payload
    IN  body \o <<SumBytes(body) % 256, (SumBytes(body) \div 256) % 256>>

\* a frame with command 0x41 (current reading) arrives from a device
DeviceSend(block, n, tail) ==
    /\ pc = "build"
    /\ source = "none"
    /\ byte_array' = DeviceFrame(65, <<<<block[1], SubSeq(block[2], 1, Min(n, Len(block[2])))>>>>
                                      \o tail)
    /\ source' = "device"
    /\ pc' = "received"
    /\ UNCHANGED <<packets, command, message, edits, is_tlv, unpack_data, out_data>>
    /\ UNCHANGED <<records, conv, sub, signal_sensor, calls, hass>>

NextDevice ==
    \/ \E block \in DeviceBlocks, n \in 0..MaxValueLen, tail \in DeviceTails :
          DeviceSend(block, n, tail)
    \/ \E n \in 0..Len(byte_array) : Lose(n)
    \/ Decode

SpecDevice == Init /\ [][NextDevice]_vars

----------------------------------------------------------------------------
(* Frames a device puts together sub-record by sub-record.                  *)

\* most sub-records in a frame a device puts together
MaxRecords == 3

\* the device puts one more sub-record in the frame
AddRecord(rec) ==
    /\ pc = "build"
    /\ source = "none"
    /\ packets = <<>>
    /\ Len(records) < MaxRecords
    /\ records' = Append(records, rec)
    /\ UNCHANGED <<packets, command, message, byte_array, source, edits, is_tlv, unpack_data,
                   out_data, pc, conv, sub, signal_sensor, calls, hass>>

\* the frame with command cmd and these sub-records arrives
SendRecords(cmd) ==
    /\ pc = "build"
    /\ source = "none"
    /\ packets = <<>>
    /\ byte_array' = DeviceFrame(cmd, records)
    /\ source' = "device"
    /\ pc' = "received"
    /\ UNCHANGED <<packets, command, message, edits, is_tlv, unpack_data, out_data, records,
                   conv, sub, signal_sensor, calls, hass>>

\* sub-records with tags tlv_decode and tlv_unpack do not name: 0x40 with one byte, 0xff
\* with none, 0x00 whose value reads like a report-interval sub-record
UnknownRecords == {<<64, <<1>>>>, <<255, <<>>>>, <<0, <<4, 1, 0, 9>>>>}
\* sub-records with tags they name: product id, report interval, firmware version,
\* realtime reading, composite block of sub-type 1, PM module absent
KnownRecords ==
    {<<56, <<7>>>>, <<4, <<10, 0>>>>, <<17, <<49, 46, 50>>>>,
     <<20, SubSeq(RealtimeTemplate, 1, 11)>>, <<133, SubSeq(BlockTemplate(1), 1, 9)>>,
     <<97, <<>>>>}

NextUnknown ==
    \/ \E rec \in KnownRecords \cup UnknownRecords : AddRecord(rec)
    \/ SendRecords(65)
    \/ Decode

SpecUnknown == Init /\ [][NextUnknown]_vars

----------------------------------------------------------------------------
(* The sub-decoders on their own, each called on values of its own layout,  *)
(* whole, cut short and with a byte too many.                               *)

\* the six bytes of a TH block: th in three bytes, pressure in two, battery
THBlock(th, pressure, battery) ==
    <<th % 256, (th \div 256) % 256, th \div 65536, pressure % 256, pressure \div 256, battery>>
\* th: 0, 0x01f688, 0xffffff, 500 << 12 (zero degrees), 0xfff and 0x1000 (each side of bit 12)
THValues == {0, 128648, 16777215, 2048000, 4095, 4096}
PressureValues == {0, 10000, 65535}
BatteryValues == {0, 85, 255}
THBlocks == {THBlock(th, p, b) : th \in THValues, p \in PressureValues, b \in BatteryValues}

\* the 23 bytes of a composite block: timestamp, sub-type, seven two-byte fields, light
V2Block(timestamp, sensor_type, f, light) ==
    ToBytesLE(timestamp, 4) \o <<sensor_type>> \o ToBytesLE(f[1], 2) \o ToBytesLE(f[2], 2)
    \o ToBytesLE(f[3], 2) \o ToBytesLE(f[4], 2) \o ToBytesLE(f[5], 2) \o ToBytesLE(f[6], 2)
    \o ToBytesLE(f[7], 2) \o ToBytesLE(light, 4)
\* the sub-types decode_sensor_data_v2 names, and two it does not
SensorTypes == {1, 2, 3, 4, 10, 0, 7}
\* composite blocks with seven different fields, with the largest fields, and with zeros
V2Blocks ==
    {V2Block(1708154368, t, <<250, 450, 600, 12, 20, 5, 40>>, 300) : t \in SensorTypes}
    \cup {V2Block(2147483647, t, <<65535, 65535, 65535, 65535, 65535, 65535, 65535>>,
                  2147483647) : t \in SensorTypes}
    \cup {V2Block(0, t, <<0, 0, 0, 0, 0, 0, 0>>, 0) : t \in SensorTypes}

\* the values of layout blocks, whole, cut to every shorter length, and one byte longer
WithCuts(blocks) ==
    blocks \cup {Slice(b, 0, n) : b \in blocks, n \in 0..MaxValueLen}
           \cup {b \o <<9>> : b \in blocks}

\* the sub-decoder fn is about to be called on byte_array
ToCall(fn, byte_array_) == [fn |-> fn, byte_array |-> byte_array_, result |-> EmptyDict]

InitSub ==
    /\ packets = <<>>
    /\ command = 0
    /\ message = Returned(<<>>)
    /\ byte_array = <<>>
    /\ source = "none"
    /\ edits = 0
    /\ is_tlv = FALSE
    /\ unpack_data = NotCalled
    /\ out_data = [raised |-> FALSE, exc |-> None, value |-> EmptyDict, caught |-> None]
    /\ pc = "block"
    /\ records = <<>>
    /\ conv = NoConversion
    /\ sub \in {ToCall("decode_th_data", b) : b \in WithCuts(THBlocks)}
               \cup {ToCall("decode_sensor_data_v2", b) : b \in WithCuts(V2Blocks)}
    /\ signal_sensor = <<>>
    /\ calls = NoCalls
    /\ hass = NoHass

\* result = decode_th_data(byte_array)
call_decode_th_data ==
    /\ pc = "block"
    /\ sub.fn = "decode_th_data"
    /\ sub' = [sub EXCEPT !.result = decode_th_data(sub.byte_array)]
    /\ pc' = "called"
    /\ UNCHANGED <<packets, command, message, byte_array, source, edits, is_tlv, unpack_data,
                   out_data, records, conv, signal_sensor, calls, hass>>

\* result = decode_sensor_data_v2(byte_array)
call_decode_sensor_data_v2 ==
    /\ pc = "block"
    /\ sub.fn = "decode_sensor_data_v2"
    /\ sub' = [sub EXCEPT !.result = decode_sensor_data_v2(sub.byte_array)]
    /\ pc' = "called"
    /\ UNCHANGED <<packets, command, message, byte_array, source, edits, is_tlv, unpack_data,
                   out_data, records, conv, signal_sensor, calls, hass>>

NextSub ==
    \/ call_decode_th_data
    \/ call_decode_sensor_data_v2

SpecSub == InitSub /\ [][NextSub]_vars

----------------------------------------------------------------------------
(* Frames with history sub-records (tag 0x03).                              *)

\* a history value: start timestamp, sample duration, then the bytes of the readings
HistoryValue(timestamp, duration, rest) ==
    ToBytesLE(timestamp, 4) \o ToBytesLE(duration, 2) \o rest

\* history values: three readings; three readings and five bytes more; two readings from
\* timestamp 0 with the longest duration and one byte more; one reading with duration
\* 0; no reading; five bytes of a reading; five bytes of a header; no byte
HistoryValues ==
    LET b1 == THBlock(128648, 10000, 85)
        b2 == THBlock(2048000, 0, 0)
        b3 == THBlock(16777215, 65535, 255)
    IN  {HistoryValue(1708154368, 60, b1 \o b2 \o b3),
         HistoryValue(1708154368, 60, b1 \o b2 \o b3 \o <<1, 2, 3, 4, 5>>),
         HistoryValue(0, 65535, b3 \o b1 \o <<7>>),
         HistoryValue(1708154368, 0, b2),
         HistoryValue(1708154368, 60, <<>>),
         HistoryValue(1708154368, 60, <<1, 2, 3, 4, 5>>),
         <<0, 94, 208, 101, 60>>,
         <<>>}

NextHistory ==
    \/ \E value \in HistoryValues : AddRecord(<<3, value>>)
    \/ SendRecords(66)
    \/ Decode

SpecHistory == Init /\ [][NextHistory]_vars

----------------------------------------------------------------------------
(* Frames with realtime sub-records (tag 0x14).                             *)

\* a realtime value: timestamp, TH block, rssi byte, then whatever follows
RealtimeValue(timestamp, th_block, rssi, rest) ==
    ToBytesLE(timestamp, 4) \o th_block \o <<rssi>> \o rest

\* realtime values: 11 bytes with rssi 0x9c; the same and three bytes more; timestamp 0
\* with the largest fields and rssi 127; the smallest fields and rssi 128; the largest
\* timestamp and rssi 255; then 10 bytes, 4 bytes and no byte
RealtimeValues ==
    LET b1 == THBlock(128648, 10000, 85)
        b2 == THBlock(0, 0, 0)
        b3 == THBlock(16777215, 65535, 255)
    IN  {RealtimeValue(1708154368, b1, 156, <<>>),
         RealtimeValue(1708154368, b1, 156, <<1, 2, 3>>),
         RealtimeValue(0, b3, 127, <<>>),
         RealtimeValue(1708154368, b2, 128, <<>>),
         RealtimeValue(2147483647, THBlock(4096, 1, 1), 255, <<>>),
         ToBytesLE(1708154368, 4) \o b1,
         ToBytesLE(1708154368, 4),
         <<>>}

NextRealtime ==
    \/ \E value \in RealtimeValues : AddRecord(<<20, value>>)
    \/ SendRecords(65)
    \/ Decode

SpecRealtime == Init /\ [][NextRealtime]_vars

----------------------------------------------------------------------------
(* Frames that mix composite blocks (tag 0x85) with realtime and history    *)
(* sub-records.                                                             *)

\* composite blocks of sub-types 1, 10 and 7 with timestamps 1000, 2000 and 3000, and
\* one of four bytes; a realtime reading; one a byte short; a history block of two readings
MixedRecords ==
    {<<133, Slice(V2Block(1000, 1, <<250, 450, 600, 12, 20, 5, 40>>, 300), 0, 9)>>,
     <<133, V2Block(2000, 10, <<250, 450, 600, 12, 20, 5, 40>>, 300)>>,
     <<133, Slice(V2Block(3000, 7, <<250, 450, 600, 12, 20, 5, 40>>, 300), 0, 5)>>,
     <<133, <<16, 32, 48, 64>>>>,
     <<20, SubSeq(RealtimeTemplate, 1, 11)>>,
     <<20, SubSeq(RealtimeTemplate, 1, 10)>>,
     <<3, SubSeq(HistoryTemplate, 1, 18)>>}

NextMixed ==
    \/ \E rec \in MixedRecords : AddRecord(rec)
    \/ SendRecords(65)
    \/ Decode

SpecMixed == Init /\ [][NextMixed]_vars

----------------------------------------------------------------------------
(* Frames with version sub-records (tags 0x11, 0x34, 0x35) whose values are *)
(* and are not UTF-8.                                                       *)

\* byte strings bytes.decode("utf-8") rejects: a byte that starts no character, an
\* overlong form, a character cut short, a continuation byte after a whole character
InvalidUtf8 == {<<255>>, <<192, 128>>, <<226, 130>>, <<49, 128>>}
\* version sub-records: "1.2", an e with acute accent, the empty string, and the four
\* byte strings that are no UTF-8 under the three tags; report interval and battery
VersionRecords ==
    {<<17, <<49, 46, 50>>>>, <<52, <<195, 169>>>>, <<53, <<>>>>,
     <<17, <<255>>>>, <<52, <<192, 128>>>>, <<53, <<226, 130>>>>, <<17, <<49, 128>>>>,
     <<4, <<10, 0>>>>, <<100, <<85>>>>}

NextVersion ==
    \/ \E rec \in VersionRecords : AddRecord(rec)
    \/ SendRecords(65)
    \/ Decode

SpecVersion == Init /\ [][NextVersion]_vars

----------------------------------------------------------------------------
(* Frames with signal-strength sub-records (tag 0x65), with and without     *)
(* sensor data beside them, under the commands 0x41 and 0x42.               *)

\* signal-strength sub-records: one byte on both sides of 128, and two bytes (300)
SignalRecords == {<<101, <<v>>>> : v \in {0, 127, 128, 156, 255}} \cup {<<101, <<44, 1>>>>}
\* sub-records that make sensor data: a realtime reading, a history block of two
\* readings, a composite block of sub-type 1
ReadingRecords ==
    {<<20, SubSeq(RealtimeTemplate, 1, 11)>>, <<3, SubSeq(HistoryTemplate, 1, 18)>>,
     <<133, SubSeq(BlockTemplate(1), 1, 9)>>}

NextSignal ==
    \/ \E rec \in SignalRecords \cup ReadingRecords : AddRecord(rec)
    \/ \E cmd \in {65, 66} : SendRecords(cmd)
    \/ Decode

SpecSignal == Init /\ [][NextSignal]_vars

----------------------------------------------------------------------------
(* Codec calls side by side: several tasks call tlv_decode and tlv_encode,  *)
(* each call runs statement by statement on its own locals, and the calls   *)
(* take their steps in any order.                                           *)

\* the frames decoded: two composite blocks around a battery percentage; a realtime
\* reading before a composite block; a buffer without the marker
CallFrames ==
    {DeviceFrame(65, <<<<133, Slice(V2Block(1000, 1, <<250, 450, 600, 12, 20, 5, 40>>, 300), 0, 9)>>,
                       <<100, <<85>>>>,
                       <<133, V2Block(2000, 10, <<250, 450, 600, 12, 20, 5, 40>>, 300)>>>>),
     DeviceFrame(65, <<<<20, SubSeq(RealtimeTemplate, 1, 11)>>,
                       <<133, Slice(V2Block(3000, 2, <<250, 450, 600, 12, 20, 5, 40>>, 300), 0, 7)>>>>),
     <<0, 1>>}
\* the (command, packets) encoded: build_config_command(15, 60)
CallCommands == {<<2, <<<<4, <<15, 0>>>>, <<5, <<60, 0>>>>>>>>}

\* where call c keeps its data_list with one list at module level for all calls
DataListCell_module_level(c) == 1

\* where call c keeps its data_list: data_list = [] makes a local of the call
DataListCell(c) == c

\* call c enters tlv_decode(frame): the marker check, and up to data_list = []
DecodeBegin(c, frame) ==
    /\ calls[c].at = "idle"
    /\ calls' =
          IF Len(frame) < 2 \/ Slice(frame, 0, 2) # <<67, 71>>
          THEN [calls EXCEPT ![c] = [Idle EXCEPT !.fn = "tlv_decode", !.arg = frame,
                                                 !.at = "done",
                                                 !.result = [raised |-> FALSE, exc |-> None,
                                                             value |-> EmptyDict,
                                                             caught |-> None]]]
          ELSE LET unpack == tlv_unpack(frame)
               IN  [calls EXCEPT ![c] = [Idle EXCEPT !.fn = "tlv_decode", !.arg = frame,
                                                      !.at = "loop",
                                                      !.sub_pack_list = unpack.value.subPackList,
                                                      !.product_id = unpack.value.productId,
                                                      !.index = 1,
                                                      !.out = [productId |-> unpack.value.productId]],
                                  ![DataListCell(c)].data_list = <<>>]
    /\ UNCHANGED <<packets, command, message, byte_array, source, edits, is_tlv, unpack_data,
                   out_data, pc, records, conv, sub, signal_sensor, hass>>

\* call c runs one iteration of tlv_decode's loop over subPackList
DecodeIterate(c) ==
    /\ calls[c].fn = "tlv_decode"
    /\ calls[c].at = "loop"
    /\ calls[c].exc = None
    /\ calls[c].index <= Len(calls[c].sub_pack_list)
    /\ LET st  == DecodeState(calls[c].out, calls[DataListCell(c)].data_list, None)
           end == Interpret(st, calls[c].sub_pack_list[calls[c].index], calls[c].product_id)
       IN  calls' = [calls EXCEPT ![c].out = end.out,
                                  ![c].exc = end.exc,
                                  ![c].index = @ + 1,
                                  ![DataListCell(c)].data_list = end.data_list]
    /\ UNCHANGED <<packets, command, message, byte_array, source, edits, is_tlv, unpack_data,
                   out_data, pc, records, conv, sub, signal_sensor, hass>>

\* call c leaves tlv_decode: the data_list check and return out_data, or {} from the
\* except clause
DecodeReturn(c) ==
    /\ calls[c].fn = "tlv_decode"
    /\ calls[c].at = "loop"
    /\ calls[c].exc # None \/ calls[c].index > Len(calls[c].sub_pack_list)
    /\ LET data_list == calls[DataListCell(c)].data_list
       IN  calls' = [calls EXCEPT
                        ![c].at = "done",
                        ![c].result =
                            IF calls[c].exc \in Caught
                            THEN [raised |-> FALSE, exc |-> None, value |-> EmptyDict,
                                  caught |-> calls[c].exc]
                            ELSE IF Len(data_list) > 0
                            THEN [raised |-> FALSE, exc |-> None,
                                  value |-> Put(calls[c].out, "sensorData", data_list),
                                  caught |-> None]
                            ELSE [raised |-> FALSE, exc |-> None, value |-> calls[c].out,
                                  caught |-> None]]
    /\ UNCHANGED <<packets, command, message, byte_array, source, edits, is_tlv, unpack_data,
                   out_data, pc, records, conv, sub, signal_sensor, hass>>

\* call c enters tlv_encode(command, packets): payload = b''
EncodeBegin(c, arg) ==
    /\ calls[c].at = "idle"
    /\ calls' = [calls EXCEPT ![c] = [Idle EXCEPT !.fn = "tlv_encode", !.arg = arg,
                                                  !.at = "loop", !.index = 1]]
    /\ UNCHANGED <<packets, command, message, byte_array, source, edits, is_tlv, unpack_data,
                   out_data, pc, records, conv, sub, signal_sensor, hass>>

\* call c runs one iteration of tlv_encode's loop: payload += encode_tlv_packet(key, data)
EncodeIterate(c) ==
    /\ calls[c].fn = "tlv_encode"
    /\ calls[c].at = "loop"
    /\ calls[c].exc = None
    /\ calls[c].index <= Len(calls[c].arg[2])
    /\ LET item == calls[c].arg[2][calls[c].index]
           one  == encode_tlv_packet(item[1], item[2])
       IN  calls' = [calls EXCEPT ![c].payload = IF one.raised THEN @ ELSE @ \o one.value,
                                  ![c].exc = one.exc,
                                  ![c].index = @ + 1]
    /\ UNCHANGED <<packets, command, message, byte_array, source, edits, is_tlv, unpack_data,
                   out_data, pc, records, conv, sub, signal_sensor, hass>>

\* call c leaves tlv_encode: header, payload and checksum, or the exception raised
EncodeReturn(c) ==
    /\ calls[c].fn = "tlv_encode"
    /\ calls[c].at = "loop"
    /\ calls[c].exc # None \/ calls[c].index > Len(calls[c].arg[2])
    /\ LET length == int_to_bytes_little_endian(Len(calls[c].payload), 2, FALSE)
           body   == <<67, 71, calls[c].arg[1]>> \o length.value \o calls[c].payload
       IN  calls' = [calls EXCEPT
                        ![c].at = "done",
                        ![c].result =
                            IF calls[c].exc # None THEN Raised(calls[c].exc)
                            ELSE IF calls[c].arg[1] < 0 \/ calls[c].arg[1] > 255
                            THEN Raised("ValueError")
                            ELSE IF length.raised THEN length
                            ELSE Returned(body \o calculate_checksum(body).value)]
    /\ UNCHANGED <<packets, command, message, byte_array, source, edits, is_tlv, unpack_data,
                   out_data, pc, records, conv, sub, signal_sensor, hass>>

NextCalls ==
    \/ \E c \in CallIds, frame \in CallFrames : DecodeBegin(c, frame)
    \/ \E c \in CallIds : DecodeIterate(c)
    \/ \E c \in CallIds : DecodeReturn(c)
    \/ \E c \in CallIds, arg \in CallCommands : EncodeBegin(c, arg)
    \/ \E c \in CallIds : EncodeIterate(c)
    \/ \E c \in CallIds : EncodeReturn(c)

SpecCalls == Init /\ [][NextCalls]_vars

----------------------------------------------------------------------------
(* The integer conversions with every width from no byte to four bytes.     *)

\* the widths converted to, the empty one included
AnyWidths == Widths \cup {0}

InitIntAny ==
    /\ packets = <<>>
    /\ command = 0
    /\ message = Returned(<<>>)
    /\ byte_array = <<>>
    /\ source = "none"
    /\ edits = 0
    /\ is_tlv = FALSE
    /\ unpack_data = NotCalled
    /\ out_data = [raised |-> FALSE, exc |-> None, value |-> EmptyDict, caught |-> None]
    /\ pc = "convert"
    /\ records = <<>>
    /\ conv \in {[value |-> v, length |-> n, signed |-> s, bytes |-> Returned(<<>>), back |-> 0] :
                    v \in IntValues, n \in AnyWidths, s \in BOOLEAN}
    /\ sub = NoSubDecoder
    /\ signal_sensor = <<>>
    /\ calls = NoCalls
    /\ hass = NoHass

SpecIntAny == InitIntAny /\ [][NextInt]_vars

----------------------------------------------------------------------------
(* Frames with several realtime (tag 0x14) and history (tag 0x03)           *)
(* sub-records and no composite block.                                      *)

\* two realtime readings with timestamps 1708154368 and 1000; a realtime value a byte
\* short; a history block of two readings from timestamp 2000; a history header alone;
\* a history header and five bytes of a reading; a battery percentage
ListRecords ==
    {<<20, RealtimeValue(1708154368, THBlock(128648, 10000, 85), 156, <<>>)>>,
     <<20, RealtimeValue(1000, THBlock(2048000, 0, 0), 127, <<>>)>>,
     <<20, ToBytesLE(1708154368, 4) \o THBlock(128648, 10000, 85)>>,
     <<3, HistoryValue(2000, 60, THBlock(128648, 10000, 85) \o THBlock(16777215, 65535, 255))>>,
     <<3, HistoryValue(3000, 60, <<>>)>>,
     <<3, HistoryValue(3000, 60, <<1, 2, 3, 4, 5>>)>>,
     <<100, <<85>>>>}

NextLists ==
    \/ \E rec \in ListRecords : AddRecord(rec)
    \/ SendRecords(65)
    \/ Decode

SpecLists == Init /\ [][NextLists]_vars

----------------------------------------------------------------------------
(* Frames with product-id sub-records (tag 0x38), whose length fields the   *)
(* transport may damage so that the walk ends early or reads on from a      *)
(* wrong place.                                                             *)

\* product-id sub-records with one value byte, with two, and with none; a report
\* interval; a sub-record with a tag tlv_decode does not name
ProductRecords ==
    {<<56, <<7>>>>, <<56, <<9, 1>>>>, <<56, <<>>>>, <<4, <<10, 0>>>>, <<64, <<1>>>>}
\* the bytes (from 1) of the frame's length field and of the first sub-record's
LengthBytes == {4, 7}

NextProduct ==
    \/ \E rec \in ProductRecords : AddRecord(rec)
    \/ SendRecords(65)
    \/ \E i \in LengthBytes, b \in NoiseBytes : Corrupt(i, b)
    \/ Decode

SpecProduct == Init /\ [][NextProduct]_vars

----------------------------------------------------------------------------
(* Frames with sub-records of every tag tlv_decode names, each tag at most  *)
(* once and in the order of the tags.                                       *)

\* one sub-record for each tag tlv_decode names, and for the tags of the report
\* interval and of the charging flag one without a value as well
FieldRecords ==
    {<<3, SubSeq(HistoryTemplate, 1, 18)>>, <<4, <<10, 0>>>>, <<4, <<>>>>, <<5, <<60, 0>>>>,
     <<9, <<77>>>>, <<17, <<49, 46, 50>>>>, <<20, SubSeq(RealtimeTemplate, 1, 11)>>,
     <<29, <<2>>>>, <<44, <<1>>>>, <<44, <<>>>>, <<52, <<65>>>>, <<53, <<66>>>>,
     <<97, <<171, 205>>>>, <<100, <<85>>>>, <<101, <<156>>>>,
     <<133, SubSeq(BlockTemplate(1), 1, 9)>>}

\* the device puts one more sub-record in the frame, its tag above the tags before it
AddField(rec) ==
    /\ pc = "build"
    /\ source = "none"
    /\ packets = <<>>
    /\ Len(records) < MaxRecords
    /\ records # <<>> => records[Len(records)][1] < rec[1]
    /\ records' = Append(records, rec)
    /\ UNCHANGED <<packets, command, message, byte_array, source, edits, is_tlv, unpack_data,
                   out_data, pc, conv, sub, signal_sensor, calls, hass>>

NextFields ==
    \/ \E rec \in FieldRecords : AddField(rec)
    \/ SendRecords(65)
    \/ Decode

SpecFields == Init /\ [][NextFields]_vars

----------------------------------------------------------------------------
(* Frames with charging-flag sub-records (tag 0x2c).                        *)

\* charging flags 1, 0, 2 and 255; two bytes starting with 1 and with 0; no byte; and a
\* battery percentage
ChargingRecords ==
    {<<44, <<1>>>>, <<44, <<0>>>>, <<44, <<2>>>>, <<44, <<255>>>>, <<44, <<1, 0>>>>,
     <<44, <<0, 1>>>>, <<44, <<>>>>, <<100, <<85>>>>}

NextCharging ==
    \/ \E rec \in ChargingRecords : AddRecord(rec)
    \/ SendRecords(65)
    \/ Decode

SpecCharging == Init /\ [][NextCharging]_vars

----------------------------------------------------------------------------
(* Frames with PM-module sub-records (tag 0x61).                            *)

\* serial numbers of two, one and three bytes; no value; and a battery percentage
ModuleRecords ==
    {<<97, <<171, 205>>>>, <<97, <<0>>>>, <<97, <<10, 255, 1>>>>, <<97, <<>>>>, <<100, <<85>>>>}

NextModule ==
    \/ \E rec \in ModuleRecords : AddRecord(rec)
    \/ SendRecords(65)
    \/ Decode

SpecModule == Init /\ [][NextModule]_vars

----------------------------------------------------------------------------
(* Frames whose bytes after the payload are damaged, cut off or followed by *)
(* more bytes.                                                              *)

\* a battery percentage and a product id
TailRecords == {<<100, <<85>>>>, <<56, <<7>>>>}
\* the bytes that may follow a frame
TailBytes == {0, 100}

\* 5 + length: how many bytes of the buffer b tlv_unpack reads, the header's five and
\* the payload's
TailStart(b) == 5 + bytes_to_int_little_endian(Slice(b, 3, 5))

\* the transport delivers one more byte after the buffer
Extend(b) ==
    /\ pc = "received"
    /\ edits < MaxEdits
    /\ byte_array' = Append(byte_array, b)
    /\ edits' = edits + 1
    /\ UNCHANGED <<packets, command, message, source, is_tlv, unpack_data, out_data, pc>>
    /\ UNCHANGED <<records, conv, sub, signal_sensor, calls, hass>>

NextTail ==
    \/ \E rec \in TailRecords : AddRecord(rec)
    \/ SendRecords(65)
    \/ \E i \in (TailStart(byte_array) + 1)..Len(byte_array), b \in NoiseBytes : Corrupt(i, b)
    \/ \E n \in TailStart(byte_array)..Len(byte_array) : Lose(n)
    \/ \E b \in TailBytes : Extend(b)
    \/ Decode

SpecTail == Init /\ [][NextTail]_vars

----------------------------------------------------------------------------
(* tlv_unpack statement by statement: call 1 walks the buffer a device      *)
(* sent, whose length fields the transport may have damaged and whose tail  *)
(* it may have lost.                                                        *)

\* a product id, a report interval and a battery sub-record without a value
WalkRecords == {<<56, <<7>>>>, <<4, <<10, 0>>>>, <<100, <<>>>>}
\* the positions (from 1) the transport damages: the frame's length field (4, 5), the
\* first sub-record's low length byte (7) and the second sub-record's (10 after a
\* sub-record without a value, 11 after one with a one-byte value)
WalkLengthBytes == {4, 5, 7, 10, 11}

\* tlv_unpack(byte_array) up to the while loop: the two early returns, or the locals
\* payload, product_id, index and sub_pack_list set
UnpackBegin ==
    /\ pc = "received"
    /\ calls[1].at = "idle"
    /\ LET length == bytes_to_int_little_endian(Slice(byte_array, 3, 5))
           early  == IF Len(byte_array) < 5
                     THEN Returned([cmd |-> None, productId |-> 0, length |-> 0,
                                    subPackList |-> <<>>])
                     ELSE Returned([cmd |-> Hex(Slice(byte_array, 2, 3)), productId |-> 0,
                                    length |-> length, subPackList |-> <<>>])
       IN  IF Len(byte_array) < 5 \/ Len(byte_array) < 5 + length
           THEN /\ calls' = [calls EXCEPT ![1] = [Idle EXCEPT !.fn = "tlv_unpack",
                                                              !.arg = byte_array,
                                                              !.at = "done",
                                                              !.result = early]]
                /\ unpack_data' = early
                /\ pc' = "unpacked"
           ELSE /\ calls' = [calls EXCEPT ![1] = [Idle EXCEPT !.fn = "tlv_unpack",
                                                              !.arg = byte_array,
                                                              !.at = "loop",
                                                              !.payload = Slice(byte_array, 5, 5 + length),
                                                              !.length = length,
                                                              !.product_id = 0,
                                                              !.index = 0,
                                                              !.sub_pack_list = <<>>]]
                /\ unpack_data' = unpack_data
                /\ pc' = "walk"
    /\ UNCHANGED <<packets, command, message, byte_array, source, edits, is_tlv, out_data,
                   records, conv, sub, signal_sensor, hass>>

\* one iteration of the while loop that reaches sub_pack_list.append(sub_pack) and
\* leaving out the check that the value ends inside the payload
UnpackIterate_unchecked ==
    /\ pc = "walk"
    /\ calls[1].fn = "tlv_unpack"
    /\ calls[1].at = "loop"
    /\ calls[1].index < calls[1].length
    /\ calls[1].index + 3 <= calls[1].length
    /\ LET payload     == calls[1].payload
           index       == calls[1].index
           key         == Hex(Slice(payload, index, index + 1))
           sub_len     == bytes_to_int_little_endian(Slice(payload, index + 1, index + 3))
           sub_payload == Slice(payload, index + 3, index + 3 + sub_len)
           sub_pack    == [key |-> key, len |-> sub_len, payload |-> sub_payload]
       IN  calls' = [calls EXCEPT
                        ![1].index = index + 3 + sub_len,
                        ![1].product_id = IF key = "38"
                                          THEN (IF Len(sub_payload) > 0 THEN At(sub_payload, 0)
                                                ELSE 0)
                                          ELSE @,
                        ![1].sub_pack_list = Append(@, sub_pack)]
    /\ UNCHANGED <<packets, command, message, byte_array, source, edits, is_tlv, unpack_data,
                   out_data, pc, records, conv, sub, signal_sensor, hass>>

\* one iteration of the while loop that reaches sub_pack_list.append(sub_pack)
UnpackIterate ==
    /\ pc = "walk"
    /\ calls[1].fn = "tlv_unpack"
    /\ calls[1].at = "loop"
    /\ calls[1].index < calls[1].length
    /\ calls[1].index + 3 <= calls[1].length
    /\ LET payload     == calls[1].payload
           index       == calls[1].index
           key         == Hex(Slice(payload, index, index + 1))
           sub_len     == bytes_to_int_little_endian(Slice(payload, index + 1, index + 3))
           sub_payload == Slice(payload, index + 3, index + 3 + sub_len)
           sub_pack    == [key |-> key, len |-> sub_len, payload |-> sub_payload]
       IN  /\ index + 3 + sub_len <= calls[1].length
           /\ calls' = [calls EXCEPT
                           ![1].index = index + 3 + sub_len,
                           ![1].product_id = IF key = "38"
                                             THEN (IF Len(sub_payload) > 0
                                                   THEN At(sub_payload, 0) ELSE 0)
                                             ELSE @,
                           ![1].sub_pack_list = Append(@, sub_pack)]
    /\ UNCHANGED <<packets, command, message, byte_array, source, edits, is_tlv, unpack_data,
                   out_data, pc, records, conv, sub, signal_sensor, hass>>

\* the while loop is left, by its condition or by one of the two breaks, and
\* tlv_unpack returns
UnpackReturn ==
    /\ pc = "walk"
    /\ calls[1].fn = "tlv_unpack"
    /\ calls[1].at = "loop"
    /\ LET payload == calls[1].payload
           index   == calls[1].index
           sub_len == bytes_to_int_little_endian(Slice(payload, index + 1, index + 3))
       IN  IF index < calls[1].length
           THEN IF index + 3 > calls[1].length THEN TRUE
                ELSE index + 3 + sub_len > calls[1].length
           ELSE TRUE
    /\ LET result == Returned([cmd |-> Hex(Slice(calls[1].arg, 2, 3)),
                               productId |-> calls[1].product_id,
                               length |-> calls[1].length,
                               subPackList |-> calls[1].sub_pack_list])
       IN  /\ calls' = [calls EXCEPT ![1].at = "done", ![1].result = result]
           /\ unpack_data' = result
    /\ pc' = "unpacked"
    /\ UNCHANGED <<packets, command, message, byte_array, source, edits, is_tlv, out_data,
                   records, conv, sub, signal_sensor, hass>>

NextWalk ==
    \/ \E rec \in WalkRecords : AddRecord(rec)
    \/ SendRecords(65)
    \/ \E i \in WalkLengthBytes, b \in NoiseBytes : Corrupt(i, b)
    \/ \E n \in 0..Len(byte_array) : Lose(n)
    \/ UnpackBegin
    \/ UnpackIterate
    \/ UnpackReturn

SpecWalk == Init /\ [][NextWalk]_vars

----------------------------------------------------------------------------
(* The two loops of the decoder statement by statement: the walk of         *)
(* tlv_unpack as above, and decode_history_data on a history value of any   *)
(* length.  A call that has begun goes on to its next statement.            *)

\* the lengths of the history values decode_history_data is called on
HistoryLengths == 0..MaxValueLen

\* decode_history_data(byte_array) up to the while loop: the early return, or the locals
\* history_data_list, index and i set
HistoryBegin(n) ==
    /\ pc = "build"
    /\ source = "none"
    /\ packets = <<>>
    /\ records = <<>>
    /\ calls[1].at = "idle"
    /\ IF n < 6
       THEN /\ calls' = [calls EXCEPT ![1] = [Idle EXCEPT !.fn = "decode_history_data",
                                                          !.arg = Slice(HistoryTemplate, 0, n),
                                                          !.at = "done",
                                                          !.result = Returned(<<>>)]]
            /\ pc' = "listed"
       ELSE /\ calls' = [calls EXCEPT ![1] = [Idle EXCEPT !.fn = "decode_history_data",
                                                          !.arg = Slice(HistoryTemplate, 0, n),
                                                          !.at = "loop",
                                                          !.data_list = <<>>,
                                                          !.index = 6,
                                                          !.i = 0]]
            /\ pc' = "history"
    /\ UNCHANGED <<packets, command, message, byte_array, source, edits, is_tlv, unpack_data,
                   out_data, records, conv, sub, signal_sensor, hass>>

\* one iteration of the while loop that leaves index where it is
HistoryIterate_no_advance ==
    /\ pc = "history"
    /\ calls[1].fn = "decode_history_data"
    /\ calls[1].at = "loop"
    /\ calls[1].index + 6 <= Len(calls[1].arg)
    /\ LET timestamp    == bytes_to_int_little_endian(Slice(calls[1].arg, 0, 4))
           duration     == bytes_to_int_little_endian(Slice(calls[1].arg, 4, 6))
           history_pack == Slice(calls[1].arg, calls[1].index, calls[1].index + 6)
           ts           == timestamp + duration * calls[1].i
           history_data == Put(Put(Put(decode_th_data(history_pack),
                               "timestamp", ts),
                               "dataType", "data"),
                               "time", fmt_timestamp(ts))
       IN  calls' = [calls EXCEPT ![1].data_list = Append(@, history_data),
                                  ![1].i = @ + 1]
    /\ UNCHANGED <<packets, command, message, byte_array, source, edits, is_tlv, unpack_data,
                   out_data, pc, records, conv, sub, signal_sensor, hass>>

\* one iteration of the while loop: a reading is decoded and appended, i += 1,
\* index += pack_len
HistoryIterate ==
    /\ pc = "history"
    /\ calls[1].fn = "decode_history_data"
    /\ calls[1].at = "loop"
    /\ calls[1].index + 6 <= Len(calls[1].arg)
    /\ LET timestamp    == bytes_to_int_little_endian(Slice(calls[1].arg, 0, 4))
           duration     == bytes_to_int_little_endian(Slice(calls[1].arg, 4, 6))
           history_pack == Slice(calls[1].arg, calls[1].index, calls[1].index + 6)
           ts           == timestamp + duration * calls[1].i
           history_data == Put(Put(Put(decode_th_data(history_pack),
                               "timestamp", ts),
                               "dataType", "data"),
                               "time", fmt_timestamp(ts))
       IN  calls' = [calls EXCEPT ![1].data_list = Append(@, history_data),
                                  ![1].i = @ + 1,
                                  ![1].index = @ + 6]
    /\ UNCHANGED <<packets, command, message, byte_array, source, edits, is_tlv, unpack_data,
                   out_data, pc, records, conv, sub, signal_sensor, hass>>

\* the while loop is left by its condition and decode_history_data returns the list
HistoryReturn ==
    /\ pc = "history"
    /\ calls[1].fn = "decode_history_data"
    /\ calls[1].at = "loop"
    /\ ~(calls[1].index + 6 <= Len(calls[1].arg))
    /\ calls' = [calls EXCEPT ![1].at = "done", ![1].result = Returned(calls[1].data_list)]
    /\ pc' = "listed"
    /\ UNCHANGED <<packets, command, message, byte_array, source, edits, is_tlv, unpack_data,
                   out_data, records, conv, sub, signal_sensor, hass>>

NextLoops ==
    \/ \E rec \in WalkRecords : AddRecord(rec)
    \/ SendRecords(65)
    \/ \E i \in WalkLengthBytes, b \in NoiseBytes : Corrupt(i, b)
    \/ \E n \in 0..Len(byte_array) : Lose(n)
    \/ UnpackBegin
    \/ UnpackIterate
    \/ UnpackReturn
    \/ \E n \in HistoryLengths : HistoryBegin(n)
    \/ HistoryIterate
    \/ HistoryReturn

\* a call in a loop takes its next step: the interpreter runs the statements of a call
\* one after the other
SpecLoops ==
    /\ Init
    /\ [][NextLoops]_vars
    /\ WF_vars(UnpackIterate)
    /\ WF_vars(UnpackReturn)
    /\ WF_vars(HistoryIterate)
    /\ WF_vars(HistoryReturn)

----------------------------------------------------------------------------
(* The encoder called by a command builder that fills a dict and encodes it *)
(* at once, with values that fit the length field of a sub-record while the *)
(* payload they make may not fit the length field of the frame.             *)

\* most items in the dict such a builder fills
MaxItems == 4
\* a value of 16381 bytes: four of them make a payload of MaxU16 + 1 bytes
QuarterData == [i \in 1..((MaxU16 + 1) \div 4 - 3) |-> 0]
\* a value one byte shorter: with three of the above it makes a payload of MaxU16 bytes
ShortQuarterData == [i \in 1..((MaxU16 + 1) \div 4 - 4) |-> 0]
\* the dict with the keys 4, 5, ... in this order and the values f[1], f[2], ...
DictOf(f) == [i \in DOMAIN f |-> <<3 + i, f[i]>>]
\* the dicts filled: up to MaxItems short values, or four long ones that make a payload
\* of MaxU16 + 1 bytes, of MaxU16 bytes and of MaxU16 - 1 bytes
BuilderDicts ==
    UNION {{DictOf(f) : f \in [1..n -> {<<>>, <<1>>, <<15, 0>>}]} : n \in 0..MaxItems}
    \cup {DictOf([i \in 1..4 |-> IF i <= k THEN ShortQuarterData ELSE QuarterData]) : k \in 0..2}

\* a command builder: packets = {...}; return tlv_encode(cmd, packets)
BuildAndEncode(cmd, items) ==
    /\ pc = "build"
    /\ source = "none"
    /\ packets = <<>>
    /\ records = <<>>
    /\ packets' = items
    /\ command' = cmd
    /\ message' = tlv_encode(cmd, items)
    /\ pc' = "encoded"
    /\ UNCHANGED <<byte_array, source, edits, is_tlv, unpack_data, out_data>>
    /\ UNCHANGED <<records, conv, sub, signal_sensor, calls, hass>>

NextTotal == \E cmd \in Commands, items \in BuilderDicts : BuildAndEncode(cmd, items)

SpecTotal == Init /\ [][NextTotal]_vars

----------------------------------------------------------------------------
(* sensor.py, publish_setting_change: each call cancels the task it finds   *)
(* under its key in _pending_setting_publishes, creates a task that sleeps  *)
(* SETTING_CHANGE_DELAY, publishes and deletes the key, and stores it under *)
(* the key.  MQTT is connected.  The event loop runs the steps of the tasks *)
(* and the calls one at a time; tasks sleep the same delay, so they wake in *)
(* the order they were created.                                             *)

\* most calls of publish_setting_change
MaxSettingCalls == 3
\* the values set
SettingValues == {10, 20}

\* task.cancel(): a task that has not run yet never runs; one that sleeps gets
\* CancelledError at its await; one that is over is left as it is
Cancel(tasks_, t) ==
    IF t = 0 THEN tasks_
    ELSE IF tasks_[t].at = "new" THEN [tasks_ EXCEPT ![t].at = "cancelled"]
    ELSE IF tasks_[t].at = "sleep" THEN [tasks_ EXCEPT ![t].at = "cancelling"]
    ELSE tasks_

\* publish_setting_change(hass, mac, setting_key, value); seen is how many messages
\* had been published when the call arrived
PublishSettingChange(setting_key, value) ==
    /\ Len(hass.tasks) < MaxSettingCalls
    /\ hass' = [hass EXCEPT
                   !.tasks = Append(Cancel(hass.tasks, hass.pending[setting_key]),
                                    [key |-> setting_key, value |-> value, at |-> "new",
                                     seen |-> Len(hass.published)]),
                   !.pending = [@ EXCEPT ![setting_key] = Len(hass.tasks) + 1]]
    /\ UNCHANGED <<packets, command, message, byte_array, source, edits, is_tlv, unpack_data,
                   out_data, pc, records, conv, sub, signal_sensor, calls>>

\* the task t starts: _delayed_publish runs up to await asyncio.sleep(...)
TaskStart(t) ==
    /\ t \in 1..Len(hass.tasks)
    /\ hass.tasks[t].at = "new"
    /\ hass' = [hass EXCEPT !.tasks[t].at = "sleep"]
    /\ UNCHANGED <<packets, command, message, byte_array, source, edits, is_tlv, unpack_data,
                   out_data, pc, records, conv, sub, signal_sensor, calls>>

\* the cancelled task t runs: CancelledError leaves the try block through finally,
\* which deletes the key from _pending_setting_publishes if it is there
TaskCancelled(t) ==
    /\ t \in 1..Len(hass.tasks)
    /\ hass.tasks[t].at = "cancelling"
    /\ hass' = [hass EXCEPT !.tasks[t].at = "cancelled",
                            !.pending = [@ EXCEPT ![hass.tasks[t].key] = 0]]
    /\ UNCHANGED <<packets, command, message, byte_array, source, edits, is_tlv, unpack_data,
                   out_data, pc, records, conv, sub, signal_sensor, calls>>

\* the sleep of task t is over: it publishes its setting and, in finally, deletes the
\* key from _pending_setting_publishes if it is there
TaskPublish(t) ==
    /\ t \in 1..Len(hass.tasks)
    /\ hass.tasks[t].at = "sleep"
    /\ \A u \in 1..(t - 1) : hass.tasks[u].at \in {"done", "cancelled"}
    /\ hass' = [hass EXCEPT !.tasks[t].at = "done",
                            !.published = Append(@, <<hass.tasks[t].key, hass.tasks[t].value>>),
                            !.pending = [@ EXCEPT ![hass.tasks[t].key] = 0]]
    /\ UNCHANGED <<packets, command, message, byte_array, source, edits, is_tlv, unpack_data,
                   out_data, pc, records, conv, sub, signal_sensor, calls>>

NextDebounce ==
    \/ \E setting_key \in SettingKeys, value \in SettingValues :
          PublishSettingChange(setting_key, value)
    \/ \E t \in 1..MaxSettingCalls : TaskStart(t)
    \/ \E t \in 1..MaxSettingCalls : TaskCancelled(t)
    \/ \E t \in 1..MaxSettingCalls : TaskPublish(t)

SpecDebounce == Init /\ [][NextDebounce]_vars

----------------------------------------------------------------------------
(* sensor.py, QingpingDeviceStatusSensor: the sensor is created and         *)
(* attached, messages arrive, the 60-second timer calls _update_status, the *)
(* report mode is changed, and the clock goes on.                           *)

\* how far the clock goes, in seconds
MaxElapsed == 1260
\* how many config tasks the status sensor creates
MaxConfigTasks == 3
\* the steps of the clock, in seconds
ClockSteps == {60, 300}
\* const.py
TLV_MODELS == {"CGP22C", "CGP23W", "CGP22W", "CGR1W", "CGR1PW"}
\* the models set up: one with JSON messages, two with TLV messages
Models == {"CGS1", "CGP22C", "CGR1W"}
\* coordinator.data[CONF_REPORT_MODE]: absent, historic, realtime
ReportModes == {None, "historic", "realtime"}
OFFLINE_TIMEOUT_REALTIME == 300
OFFLINE_TIMEOUT_HISTORIC == 900

\* _update_status reading the timeouts the other way round
update_status_timeouts_swapped(h) ==
    IF ~h.attached THEN h
    ELSE LET timeout    == IF h.model \in TLV_MODELS
                           THEN (IF h.report_mode = "realtime"
                                 THEN OFFLINE_TIMEOUT_HISTORIC
                                 ELSE OFFLINE_TIMEOUT_REALTIME)
                           ELSE OFFLINE_TIMEOUT_REALTIME
             new_status == IF h.now - h.last_timestamp <= timeout THEN "online" ELSE "offline"
         IN  IF h.native_value # new_status
             THEN [h EXCEPT !.native_value = new_status,
                            !.config_tasks = IF h.last_status = "offline" /\ new_status = "online"
                                             THEN @ + 1 ELSE @,
                            !.last_status = new_status]
             ELSE h

\* QingpingDeviceStatusSensor._update_status on the integration h: nothing without
\* self.hass; else the status the timeout gives and, when it differs from the value,
\* the value, the config task and _last_status
update_status(h) ==
    IF ~h.attached THEN h
    ELSE LET timeout    == IF h.model \in TLV_MODELS
                           THEN (IF h.report_mode = "realtime"
                                 THEN OFFLINE_TIMEOUT_REALTIME
                                 ELSE OFFLINE_TIMEOUT_HISTORIC)
                           ELSE OFFLINE_TIMEOUT_REALTIME
             new_status == IF h.now - h.last_timestamp <= timeout THEN "online" ELSE "offline"
         IN  IF h.native_value # new_status
             THEN [h EXCEPT !.native_value = new_status,
                            !.config_tasks = IF h.last_status = "offline" /\ new_status = "online"
                                             THEN @ + 1 ELSE @,
                            !.last_status = new_status]
             ELSE h

\* async_setup_entry creates the sensors of a device of this model, whose config entry
\* and coordinator have this report mode
CreateStatusSensor(model, report_mode) ==
    /\ ~hass.created
    /\ hass' = [hass EXCEPT !.created = TRUE, !.model = model, !.report_mode = report_mode,
                            !.entry_mode = report_mode, !.event = "created"]
    /\ UNCHANGED <<packets, command, message, byte_array, source, edits, is_tlv, unpack_data,
                   out_data, pc, records, conv, sub, signal_sensor, calls>>

\* async_added_to_hass: self.hass is set and _update_status is called
AddedToHass ==
    /\ hass.created
    /\ ~hass.attached
    /\ hass' = [update_status([hass EXCEPT !.attached = TRUE]) EXCEPT !.event = "update"]
    /\ hass'.config_tasks <= MaxConfigTasks
    /\ UNCHANGED <<packets, command, message, byte_array, source, edits, is_tlv, unpack_data,
                   out_data, pc, records, conv, sub, signal_sensor, calls>>

\* a message of the device arrives: update_timestamp(int(time.time())) if the sensor
\* has self.hass
StatusMessage ==
    /\ hass.created
    /\ hass' = IF hass.attached
               THEN [update_status([hass EXCEPT !.last_timestamp = hass.now])
                        EXCEPT !.event = "update"]
               ELSE [hass EXCEPT !.event = "dropped"]
    /\ hass'.config_tasks <= MaxConfigTasks
    /\ UNCHANGED <<packets, command, message, byte_array, source, edits, is_tlv, unpack_data,
                   out_data, pc, records, conv, sub, signal_sensor, calls>>

\* the 60-second timer of async_added_to_hass: _update_status
StatusTimer ==
    /\ hass.attached
    /\ hass' = [update_status(hass) EXCEPT !.event = "update"]
    /\ hass'.config_tasks <= MaxConfigTasks
    /\ UNCHANGED <<packets, command, message, byte_array, source, edits, is_tlv, unpack_data,
                   out_data, pc, records, conv, sub, signal_sensor, calls>>

\* the report mode in coordinator.data is set (by the user or by the automatic switch)
SetReportMode(report_mode) ==
    /\ hass.created
    /\ report_mode # None
    /\ hass.report_mode # report_mode
    /\ hass' = [hass EXCEPT !.report_mode = report_mode, !.event = "mode"]
    /\ UNCHANGED <<packets, command, message, byte_array, source, edits, is_tlv, unpack_data,
                   out_data, pc, records, conv, sub, signal_sensor, calls>>

\* time passes
Tick(d) ==
    /\ hass.now + d <= StartTime + MaxElapsed
    /\ hass' = [hass EXCEPT !.now = @ + d, !.event = "tick"]
    /\ UNCHANGED <<packets, command, message, byte_array, source, edits, is_tlv, unpack_data,
                   out_data, pc, records, conv, sub, signal_sensor, calls>>

NextStatus ==
    \/ \E model \in Models, report_mode \in ReportModes : CreateStatusSensor(model, report_mode)
    \/ AddedToHass
    \/ StatusMessage
    \/ StatusTimer
    \/ \E report_mode \in ReportModes : SetReportMode(report_mode)
    \/ \E d \in ClockSteps : Tick(d)

SpecStatus == Init /\ [][NextStatus]_vars

----------------------------------------------------------------------------
(* sensor.py, QingpingDeviceSensor.publish_config from its retry loop on,   *)
(* await by await: the connection checks of ensure_mqtt_connected and the   *)
(* publish, whose outcomes the broker decides.                              *)

\* how many times publish_config is called
MaxConfigCalls == 2
MQTT_PUBLISH_RETRY_LIMIT == 3
\* ensure_mqtt_connected: for _ in range(5)
CONNECTION_CHECKS == 5
\* what mqtt.async_publish does: it returns, raises HomeAssistantError, or raises
\* another exception
PublishOutcomes == {"published", "HomeAssistantError", "Exception"}

\* publish_config is called (by the periodic timer, after setup, or by the status
\* sensor): the loop starts with attempt 0 and calls ensure_mqtt_connected
PublishConfig ==
    /\ hass.config_at \in {"idle", "returned", "raised"}
    /\ hass.config_calls < MaxConfigCalls
    /\ hass' = [hass EXCEPT !.config_calls = @ + 1, !.config_at = "ensure", !.attempt = 0,
                            !.checks = 0, !.config_log = <<>>]
    /\ UNCHANGED <<packets, command, message, byte_array, source, edits, is_tlv, unpack_data,
                   out_data, pc, records, conv, sub, signal_sensor, calls>>

\* one round of ensure_mqtt_connected's loop: mqtt.is_connected(hass) is true and the
\* publish comes next, or it is false and, after a second, the next round comes or,
\* after the last round, False is returned and publish_config returns
ConnectionCheck(connected) ==
    /\ hass.config_at = "ensure"
    /\ hass' = IF connected
               THEN [hass EXCEPT !.config_at = "publish", !.checks = 0,
                                 !.config_log = Append(@, "connected")]
               ELSE IF hass.checks + 1 < CONNECTION_CHECKS
               THEN [hass EXCEPT !.checks = @ + 1,
                                 !.config_log = Append(@, "not connected")]
               ELSE [hass EXCEPT !.config_at = "returned", !.checks = @ + 1,
                                 !.config_log = Append(@, "not connected")]
    /\ UNCHANGED <<packets, command, message, byte_array, source, edits, is_tlv, unpack_data,
                   out_data, pc, records, conv, sub, signal_sensor, calls>>

\* the publish with every exception caught and retried
ConfigPublish_retry_any(outcome) ==
    /\ hass.config_at = "publish"
    /\ hass' = IF outcome = "published"
               THEN [hass EXCEPT !.config_at = "returned", !.config_log = Append(@, outcome)]
               ELSE IF hass.attempt < MQTT_PUBLISH_RETRY_LIMIT - 1
               THEN [hass EXCEPT !.config_at = "ensure", !.attempt = @ + 1,
                                 !.config_log = Append(@, outcome)]
               ELSE [hass EXCEPT !.config_at = "returned", !.attempt = @ + 1,
                                 !.config_log = Append(@, outcome)]
    /\ UNCHANGED <<packets, command, message, byte_array, source, edits, is_tlv, unpack_data,
                   out_data, pc, records, conv, sub, signal_sensor, calls>>

\* await mqtt.async_publish: it returns and publish_config returns; it raises
\* HomeAssistantError and, after the delay, the next attempt comes or, after the last
\* attempt, the loop and publish_config end; it raises another exception, which
\* publish_config does not catch
ConfigPublish(outcome) ==
    /\ hass.config_at = "publish"
    /\ hass' = IF outcome = "published"
               THEN [hass EXCEPT !.config_at = "returned", !.config_log = Append(@, outcome)]
               ELSE IF outcome = "HomeAssistantError"
               THEN (IF hass.attempt < MQTT_PUBLISH_RETRY_LIMIT - 1
                     THEN [hass EXCEPT !.config_at = "ensure", !.attempt = @ + 1,
                                       !.config_log = Append(@, outcome)]
                     ELSE [hass EXCEPT !.config_at = "returned", !.attempt = @ + 1,
                                       !.config_log = Append(@, outcome)])
               ELSE [hass EXCEPT !.config_at = "raised", !.config_log = Append(@, outcome)]
    /\ UNCHANGED <<packets, command, message, byte_array, source, edits, is_tlv, unpack_data,
                   out_data, pc, records, conv, sub, signal_sensor, calls>>

NextConfig ==
    \/ PublishConfig
    \/ \E connected \in BOOLEAN : ConnectionCheck(connected)
    \/ \E outcome \in PublishOutcomes : ConfigPublish(outcome)

\* the event loop resumes a coroutine whose await is over: the one-second sleep and the
\* retry delay end, mqtt.async_publish returns or raises
SpecConfig ==
    /\ Init
    /\ [][NextConfig]_vars
    /\ WF_vars(\E connected \in BOOLEAN : ConnectionCheck(connected))
    /\ WF_vars(\E outcome \in PublishOutcomes : ConfigPublish(outcome))

----------------------------------------------------------------------------
(* sensor.py, the automatic report-mode switch: _handle_tlv_message reads   *)
(* the charging flag and creates a task for                                 *)
(* _auto_switch_report_mode_on_battery_state, which runs up to its publish  *)
(* and, when the publish is over, sets the report mode.                     *)

\* how many messages with a charging flag arrive
MaxChargingMessages == 3
\* the models _auto_switch_report_mode_on_battery_state switches
AutoSwitchModels == {"CGP22C", "CGP23W", "CGP22W"}
\* the models async_setup_entry gives a battery-state sensor
BatteryStateModels == {"CGS1", "CGS2", "CGDN1", "CGP22C", "CGP22W", "CGP23W"}
\* the value of tag 0x42 in real-time mode: 6 hours
REALTIME_SECONDS == 21600

\* QingpingDeviceBatteryStateSensor.update_battery_state: the sensor's value for a status
update_battery_state(status) ==
    IF status = 1 THEN "Charging"
    ELSE IF status = 2 THEN "Fully Charged"
    ELSE IF status = 0 THEN "Discharging"
    ELSE "Unknown"

\* the battery-state sensor is added to the host, which async_setup_entry asks for a
\* model of BatteryStateModels
BatteryAddedToHass ==
    /\ hass.created
    /\ hass.model \in BatteryStateModels
    /\ ~hass.battery_attached
    /\ hass' = [hass EXCEPT !.battery_attached = TRUE]
    /\ UNCHANGED <<packets, command, message, byte_array, source, edits, is_tlv, unpack_data,
                   out_data, pc, records, conv, sub, signal_sensor, calls>>

\* _handle_tlv_message on a message whose decoded batteryCharging is new_charging_state:
\* with the sensor attached, the sensor's value is updated and, if the flag differs from
\* whether the sensor read "Charging", a task for the switch is created
ChargingMessage(new_charging_state) ==
    /\ hass.created
    /\ hass.charging_messages < MaxChargingMessages
    /\ LET old_charging_state == hass.battery_value = "Charging"
           status             == IF new_charging_state THEN 1 ELSE 0
       IN  hass' = IF hass.battery_attached
                   THEN [hass EXCEPT
                           !.charging_messages = @ + 1,
                           !.latest_flag = new_charging_state,
                           !.battery_value = update_battery_state(status),
                           !.switch_tasks =
                               IF new_charging_state # old_charging_state
                               THEN Append(@, [is_charging |-> new_charging_state,
                                               at |-> "new"])
                               ELSE @]
                   ELSE [hass EXCEPT !.charging_messages = @ + 1,
                                     !.latest_flag = new_charging_state]
    /\ UNCHANGED <<packets, command, message, byte_array, source, edits, is_tlv, unpack_data,
                   out_data, pc, records, conv, sub, signal_sensor, calls>>

\* the event loop starts task t, the oldest one not started: the coroutine returns for a
\* model it does not switch, else it hands the command to mqtt.async_publish and waits
SwitchStart(t) ==
    /\ t \in 1..Len(hass.switch_tasks)
    /\ hass.switch_tasks[t].at = "new"
    /\ \A u \in 1..(t - 1) : hass.switch_tasks[u].at # "new"
    /\ hass' = IF hass.model \notin AutoSwitchModels
               THEN [hass EXCEPT !.switch_tasks[t].at = "returned"]
               ELSE LET seconds == IF hass.switch_tasks[t].is_charging
                                   THEN REALTIME_SECONDS ELSE 0
                        data    == int_to_bytes_little_endian(seconds, 2, FALSE)
                        payload == tlv_encode(50, <<<<66, data.value>>>>)
                    IN  [hass EXCEPT !.switch_tasks[t].at = "publishing",
                                     !.switch_published = Append(@, payload.value)]
    /\ UNCHANGED <<packets, command, message, byte_array, source, edits, is_tlv, unpack_data,
                   out_data, pc, records, conv, sub, signal_sensor, calls>>

\* the publish of task t is over: it raised and the task ends, or it returned and the
\* task sets the report mode of the coordinator and of the config entry (the refresh it
\* requests then leaves the report mode as the config entry has it)
SwitchComplete(t, raised) ==
    /\ t \in 1..Len(hass.switch_tasks)
    /\ hass.switch_tasks[t].at = "publishing"
    /\ hass' = IF raised
               THEN [hass EXCEPT !.switch_tasks[t].at = "raised"]
               ELSE LET new_mode == IF hass.switch_tasks[t].is_charging
                                    THEN "realtime" ELSE "historic"
                    IN  [hass EXCEPT !.switch_tasks[t].at = "done",
                                     !.report_mode = new_mode,
                                     !.entry_mode = new_mode]
    /\ UNCHANGED <<packets, command, message, byte_array, source, edits, is_tlv, unpack_data,
                   out_data, pc, records, conv, sub, signal_sensor, calls>>

NextSwitch ==
    \/ \E model \in Models, report_mode \in ReportModes : CreateStatusSensor(model, report_mode)
    \/ BatteryAddedToHass
    \/ \E new_charging_state \in BOOLEAN : ChargingMessage(new_charging_state)
    \/ \E t \in 1..MaxChargingMessages : SwitchStart(t)
    \/ \E t \in 1..MaxChargingMessages, raised \in BOOLEAN : SwitchComplete(t, raised)

SpecSwitch == Init /\ [][NextSwitch]_vars

----------------------------------------------------------------------------
(* Properties *)

\* the buffer starts with the marker 'CG'
StartsWithCG == Len(byte_array) >= 2 /\ byte_array[1] = 67 /\ byte_array[2] = 71

\* the payload length a buffer of at least 5 bytes declares in bytes 3..4
DeclaredLength == byte_array[4] + 256 * byte_array[5]

\* the sub-records tlv_unpack returned
SubPacks == unpack_data.value.subPackList

RECURSIVE Consumed(_)
\* the sum of 3 + len over sub-records
Consumed(subs) == IF subs = <<>> THEN 0 ELSE 3 + Head(subs).len + Consumed(Tail(subs))

\* the unsigned little-endian value of at most four bytes
Unsigned(p) ==
    (IF Len(p) >= 1 THEN p[1] ELSE 0) + (IF Len(p) >= 2 THEN 256 * p[2] ELSE 0)
    + (IF Len(p) >= 3 THEN 65536 * p[3] ELSE 0) + (IF Len(p) >= 4 THEN 16777216 * p[4] ELSE 0)

\* the sub-record that starts at payload offset off is whole within the declared length
WholeAt(off) ==
    /\ off + 3 <= DeclaredLength
    /\ off + 3 + byte_array[5 + off + 2] + 256 * byte_array[5 + off + 3] <= DeclaredLength

\* C1: an encoded frame that reaches tlv_unpack undamaged gives back the command and
\* exactly the (tag, value) pairs of the dict, in the dict's order; the two checksum
\* bytes play no part
C1_RoundTrip ==
    (pc = "decoded" /\ source = "encoder" /\ edits = 0) =>
        /\ ~unpack_data.raised
        /\ unpack_data.value.cmd = Hex(<<command>>)
        /\ Len(SubPacks) = Len(packets)
        /\ \A i \in 1..Len(packets) :
              /\ SubPacks[i].key = Hex(<<packets[i][1]>>)
              /\ SubPacks[i].payload = packets[i][2]
              /\ SubPacks[i].len = Len(packets[i][2])

\* two pairs, not in tag order, one with a value of more than 255 bytes and one with
\* an empty value, went round
C1_Witness ==
    /\ pc = "decoded" /\ source = "encoder" /\ edits = 0
    /\ Len(packets) = 2
    /\ packets[1][1] > packets[2][1]
    /\ Len(packets[1][2]) > 255 /\ packets[2][2] = <<>>

\* C2: the last two bytes of every encoded frame are the sum of all bytes before them,
\* mod 65536, low byte first; tlv_encode(0x32, {0x41: [1]}) is 43 47 32 04 00 41 01 00 01
\* followed by 03 01
C2_Checksum ==
    /\ tlv_encode(50, <<<<65, <<1>>>>>>) = Returned(<<67, 71, 50, 4, 0, 65, 1, 0, 1, 3, 1>>)
    /\ pc = "encoded" =>
          /\ ~message.raised
          /\ Len(message.value) >= 7
          /\ LET n == Len(message.value)
             IN  message.value[n - 1] + 256 * message.value[n]
                     = SumBytes(SubSeq(message.value, 1, n - 2)) % 65536

\* a frame whose bytes sum to more than 65535 was encoded
C2_Witness ==
    /\ pc = "encoded"
    /\ ~message.raised
    /\ SumBytes(SubSeq(message.value, 1, Len(message.value) - 2)) > 65535

RECURSIVE ExpectedPayload(_)
\* tag, len(value) as u16 little-endian, value, for each item in order
ExpectedPayload(items) ==
    IF items = <<>> THEN <<>>
    ELSE <<Head(items)[1], Len(Head(items)[2]) % 256, Len(Head(items)[2]) \div 256>>
         \o Head(items)[2] \o ExpectedPayload(Tail(items))

\* C3: an encoded frame is 'CG', the command, len(payload) as u16 little-endian, the
\* payload and two checksum bytes, the payload being tag, len(value) as u16
\* little-endian, value for each pair in the caller's order
C3_FrameLayout ==
    pc = "encoded" =>
        /\ ~message.raised
        /\ LET payload == ExpectedPayload(packets)
               P       == Len(payload)
           IN  /\ Len(message.value) = 5 + P + 2
               /\ SubSeq(message.value, 1, 5 + P)
                      = <<67, 71, command, P % 256, P \div 256>> \o payload

\* two pairs, not in tag order, with a value whose length needs the high length byte
C3_Witness ==
    /\ pc = "encoded"
    /\ Len(packets) = 2
    /\ packets[1][1] > packets[2][1]
    /\ Len(packets[2][2]) > 255

\* the fields a tlv_decode result may hold
ResultFields ==
    {"productId", "sensorData", "version", "versionModel", "versionMcu", "reportInterval",
     "collectInterval", "deviceStatus", "battery", "signalStrength", "usbPluggedIn",
     "batteryCharging", "pmModuleConnected", "pmModuleSerial"}

\* C4: on every buffer tlv_decode (and tlv_unpack) returns a record and raises nothing,
\* and no read b[i] in them or in a sub-decoder was outside its buffer (the except
\* clause never had an exception to handle)
C4_NeverRaises ==
    pc = "decoded" =>
        /\ ~unpack_data.raised
        /\ ~out_data.raised
        /\ out_data.caught = None
        /\ DOMAIN out_data.value \subseteq ResultFields

\* a realtime sub-record one byte short of its rssi byte was decoded
C4_Witness ==
    /\ pc = "decoded"
    /\ ~unpack_data.raised
    /\ \E i \in 1..Len(SubPacks) : SubPacks[i].key = "14" /\ SubPacks[i].len = 10
    /\ "sensorData" \notin DOMAIN out_data.value

\* C5: for a buffer of fewer than 5 bytes tlv_unpack returns the malformed result (no
\* command, productId 0, length 0, no sub-record) and raises nothing; tlv_decode of it
\* holds no decoded field: the empty record, or productId 0 alone when it starts with 'CG'
C5_ShortBuffer ==
    (pc = "decoded" /\ Len(byte_array) < 5) =>
        /\ ~unpack_data.raised
        /\ unpack_data.value = [cmd |-> None, productId |-> 0, length |-> 0, subPackList |-> <<>>]
        /\ ~out_data.raised
        /\ out_data.caught = None
        /\ out_data.value = IF StartsWithCG THEN [productId |-> 0] ELSE EmptyDict

\* the buffer 43 47 32 was decoded
C5_Witness ==
    /\ pc = "decoded"
    /\ byte_array = <<67, 71, 50>>

\* C6: when the buffer holds fewer than 5 + L bytes, L the declared payload length,
\* tlv_unpack returns no sub-record and productId 0, and tlv_decode interprets no
\* sub-record of the frame
C6_DeclaredLengthExceedsBuffer ==
    (pc = "decoded" /\ Len(byte_array) >= 5 /\ Len(byte_array) < 5 + DeclaredLength) =>
        /\ ~unpack_data.raised
        /\ SubPacks = <<>>
        /\ unpack_data.value.productId = 0
        /\ unpack_data.value.length = DeclaredLength
        /\ out_data.value = IF StartsWithCG THEN [productId |-> 0] ELSE EmptyDict

\* a frame cut inside its payload, after a whole report-interval sub-record 04 01 00 01
C6_Witness ==
    /\ pc = "decoded"
    /\ StartsWithCG
    /\ Len(byte_array) >= 9
    /\ Len(byte_array) < 5 + DeclaredLength
    /\ SubSeq(byte_array, 6, 9) = <<4, 1, 0, 1>>

\* the sub-records returned are the ones on the wire, one after the other from offset 0
ContiguousPrefix ==
    \A i \in 1..Len(SubPacks) :
        LET off == Consumed(SubSeq(SubPacks, 1, i - 1))
        IN  /\ WholeAt(off)
            /\ SubPacks[i].key = Hex(<<byte_array[5 + off + 1]>>)
            /\ SubPacks[i].len = byte_array[5 + off + 2] + 256 * byte_array[5 + off + 3]
            /\ SubPacks[i].payload
                   = SubSeq(byte_array, 5 + off + 4, 5 + off + 3 + SubPacks[i].len)

\* the report-interval sub-records (tag 04, a value of at least one byte) returned
ReportIntervals == {i \in 1..Len(SubPacks) : SubPacks[i].key = "04" /\ SubPacks[i].len >= 1}

\* C7: the walk returns, unchanged and in order, every sub-record that lies whole before
\* the first point where fewer than 3 bytes remain or a value would pass the declared
\* length, and nothing from that point on; tlv_decode interprets the ones returned
C7_TruncatedWalk ==
    (pc = "decoded" /\ Len(byte_array) >= 5 /\ Len(byte_array) >= 5 + DeclaredLength) =>
        /\ ~unpack_data.raised
        /\ ContiguousPrefix
        /\ Consumed(SubPacks) = DeclaredLength \/ ~WholeAt(Consumed(SubPacks))
        /\ StartsWithCG =>
              /\ out_data.value.productId = unpack_data.value.productId
              /\ ReportIntervals # {} =>
                    /\ "reportInterval" \in DOMAIN out_data.value
                    /\ \E i \in ReportIntervals :
                          /\ \A j \in ReportIntervals : j <= i
                          /\ out_data.value.reportInterval = Unsigned(SubPacks[i].payload)

\* the walk stopped before the declared length, after a report-interval sub-record that
\* tlv_decode interpreted
C7_Witness ==
    /\ pc = "decoded"
    /\ StartsWithCG
    /\ Len(byte_array) >= 5
    /\ Len(byte_array) >= 5 + DeclaredLength
    /\ Consumed(SubPacks) < DeclaredLength
    /\ ReportIntervals # {}
    /\ "reportInterval" \in DOMAIN out_data.value

\* C8 as stated: whenever tlv_unpack returns sub-records, the sum of 3 + length over
\* them equals the declared payload length
C8_SumEqualsDeclared ==
    (pc = "decoded" /\ SubPacks # <<>>) => Consumed(SubPacks) = DeclaredLength

\* C8 as amended: the sum of 3 + length over the returned sub-records never exceeds the
\* declared payload length; it equals it for every undamaged frame of tlv_encode, and
\* falls short of it only when what follows is no whole sub-record
C8_SumWithinDeclared ==
    (pc = "decoded" /\ Len(byte_array) >= 5) =>
        /\ Consumed(SubPacks) <= DeclaredLength
        /\ (source = "encoder" /\ edits = 0) => Consumed(SubPacks) = DeclaredLength
        /\ (SubPacks # <<>> /\ Consumed(SubPacks) < DeclaredLength)
               => ~WholeAt(Consumed(SubPacks))

\* sub-records were returned whose lengths sum to less than the declared length
C8_Witness ==
    /\ pc = "decoded"
    /\ SubPacks # <<>>
    /\ Consumed(SubPacks) < DeclaredLength

\* the buffer 43 47 32 03 00 40 01 00 and two checksum bytes
C9_Buffer ==
    /\ Len(byte_array) = 10
    /\ SubSeq(byte_array, 1, 8) = <<67, 71, 50, 3, 0, 64, 1, 0>>

\* C9 as stated: unpacking that buffer yields one sub-record: tag 0x40, length 1, value 01
C9_OneSubRecord ==
    (pc = "decoded" /\ C9_Buffer) =>
        SubPacks = <<[key |-> "40", len |-> 1, payload |-> <<1>>]>>

\* C9 as amended: unpacking that buffer yields command 32, length 3 and no sub-record,
\* the value of length 1 passing the declared length 3; with the declared length 4 and
\* the payload 40 01 00 01 it yields the one sub-record: tag 0x40, length 1, value 01
C9_NoSubRecord ==
    /\ (pc = "decoded" /\ C9_Buffer) =>
          unpack_data = Returned([cmd |-> "32", productId |-> 0, length |-> 3,
                                  subPackList |-> <<>>])
    /\ (pc = "decoded" /\ Len(byte_array) = 11
           /\ SubSeq(byte_array, 1, 9) = <<67, 71, 50, 4, 0, 64, 1, 0, 1>>) =>
          SubPacks = <<[key |-> "40", len |-> 1, payload |-> <<1>>]>>

\* that buffer was unpacked
C9_Witness ==
    /\ pc = "decoded"
    /\ C9_Buffer

\* C10: is_tlv_format is true exactly for the buffers of at least 2 bytes that start
\* with 43 47, and tlv_decode returns the empty record for every other buffer
C10_MarkerCheck ==
    pc = "decoded" =>
        /\ is_tlv <=> (Len(byte_array) >= 2 /\ byte_array[1] = 67 /\ byte_array[2] = 71)
        /\ ~is_tlv => (~out_data.raised /\ out_data.value = EmptyDict)

\* a buffer that starts with 43 but not with 43 47 was decoded
C10_Witness ==
    /\ pc = "decoded"
    /\ Len(byte_array) >= 2
    /\ byte_array[1] = 67
    /\ byte_array[2] # 71
    /\ ~is_tlv

\* the tags tlv_unpack and tlv_decode give a meaning to: 03 04 05 09 11 14 1d 2c 34 35 38
\* 61 64 65 85
InterpretedTags == {3, 4, 5, 9, 17, 20, 29, 44, 52, 53, 56, 97, 100, 101, 133}
IsInterpreted(rec) == rec[1] \in InterpretedTags

\* C11: whole sub-records with tags outside the interpreted set, put at any sub-record
\* boundaries of a well-formed frame, change no field of the tlv_decode result (it is the
\* result for the frame without them, payload length adjusted), raise nothing, and the
\* sub-records after them are still interpreted
C11_UnknownSkipped ==
    (pc = "decoded" /\ source = "device") =>
        /\ Len(SubPacks) = Len(records)
        /\ out_data = tlv_decode(DeviceFrame(65, SelectSeq(records, IsInterpreted)))
        /\ out_data.caught = None
        /\ \A i \in 1..Len(records) :
              /\ records[i][1] = 4 => "reportInterval" \in DOMAIN out_data.value
              /\ records[i][1] = 17 => "version" \in DOMAIN out_data.value
              /\ records[i][1] = 97 => "pmModuleConnected" \in DOMAIN out_data.value
              /\ records[i][1] \in {20, 133} => "sensorData" \in DOMAIN out_data.value

\* a frame that starts with an unknown sub-record, has another between two known ones,
\* and whose known ones were interpreted
C11_Witness ==
    /\ pc = "decoded" /\ source = "device"
    /\ Len(records) = 3
    /\ ~IsInterpreted(records[1])
    /\ records[2][1] = 4
    /\ ~IsInterpreted(records[3])
    /\ out_data.value = [productId |-> 0, reportInterval |-> 10]

\* C12: whenever the value of any one tag is longer than 65535 bytes, tlv_encode raises
\* (OverflowError from the two-byte length of that sub-record) and returns no frame, so
\* none with a truncated length is ever published
C12_ValueTooLong ==
    /\ (pc = "encoded" /\ \E i \in 1..Len(packets) : Len(packets[i][2]) > 65535) =>
          /\ message.raised
          /\ message.exc = "OverflowError"
          /\ message.value = <<>>
    /\ (pc = "received" /\ source = "encoder") =>
          \A i \in 1..Len(packets) : Len(packets[i][2]) <= 65535

\* tlv_encode was called with a dict whose second value has 65536 bytes
C12_Witness ==
    /\ pc = "encoded"
    /\ Len(packets) = 2
    /\ Len(packets[1][2]) = 1
    /\ Len(packets[2][2]) = 65536
    /\ message.raised

\* value is an unsigned integer of at most length bytes: 0 <= value < 256^length
InUnsignedRange(value, length) ==
    value >= 0 /\ (length >= 4 \/ value < Pow256(length))

\* C13: for every width n in {1,2,3,4} and every unsigned v with 0 <= v < 256^n,
\* int_to_bytes_little_endian(v, n) is n bytes and bytes_to_int_little_endian of them
\* is v, byte i contributing byte[i] * 256^i
C13_IntRoundTrip ==
    /\ (pc \in {"converted", "read"} /\ ~conv.signed
           /\ InUnsignedRange(conv.value, conv.length)) =>
          /\ ~conv.bytes.raised
          /\ Len(conv.bytes.value) = conv.length
          /\ \A i \in 1..conv.length : conv.bytes.value[i] \in 0..255
    /\ (pc = "read" /\ ~conv.signed) =>
          /\ conv.back = conv.value
          /\ conv.back = Unsigned(conv.bytes.value)

\* 0x01234567 went to four bytes and back
C13_Witness ==
    /\ pc = "read"
    /\ ~conv.signed
    /\ conv.value = 19088743
    /\ conv.length = 4
    /\ conv.bytes.value = <<103, 69, 35, 1>>

\* the signal-strength sub-records of the frame that have a value
SignalIndexes == {i \in 1..Len(records) : records[i][1] = 101 /\ Len(records[i][2]) >= 1}
\* the last of them, the one whose value the result keeps
LastSignal == CHOOSE i \in SignalIndexes : \A j \in SignalIndexes : j <= i
\* a one-byte value v read as signed: v - 256 for v >= 128, else v
SignedByte(v) == IF v >= 128 THEN v - 256 ELSE v

\* C14 as stated: a signal-strength sub-record with the single value byte v decodes to
\* signalStrength = v - 256 for v >= 128 (0x9c: -100) and v for v < 128
C14_SignedField ==
    (pc = "decoded" /\ source = "device" /\ SignalIndexes # {}
        /\ Len(records[LastSignal][2]) = 1) =>
        out_data.value.signalStrength = SignedByte(records[LastSignal][2][1])

\* C14 as amended: tlv_decode gives signalStrength = v, the unsigned byte (0x9c: 156); the
\* value _handle_tlv_message hands the signal-strength sensor from it, which it does when
\* the frame also carries sensor data, is v - 256 for v >= 128 (0x9c: -100) and v for
\* v < 128; without sensor data the sensor is left as it was
C14_SignedAtSensor ==
    (pc = "decoded" /\ source = "device" /\ SignalIndexes # {}
        /\ Len(records[LastSignal][2]) = 1) =>
        /\ out_data.value.signalStrength = records[LastSignal][2][1]
        /\ "sensorData" \in DOMAIN out_data.value =>
               signal_sensor = <<SignedByte(records[LastSignal][2][1])>>
        /\ "sensorData" \notin DOMAIN out_data.value => signal_sensor = <<>>

\* a frame with the signal-strength byte 0x9c and a composite sensor block was handled
C14_Witness ==
    /\ pc = "decoded" /\ source = "device"
    /\ records = <<<<101, <<156>>>>, <<133, SubSeq(BlockTemplate(1), 1, 9)>>>>
    /\ out_data.value.signalStrength = 156
    /\ signal_sensor = <<0 - 100>>

\* C15: for a value of at least 6 bytes decode_th_data gives temperature
\* ((th >> 12) - 500) / 10 and humidity (th & 0xfff) / 10, th the little-endian integer
\* of bytes [0:3), pressure (little-endian integer of bytes [3:5)) / 100 and battery
\* byte 5; th = 0x1f688 gives (0x1f - 500) / 10 and 0x688 / 10; a value shorter than 6
\* bytes gives the empty record
C15_THBlock ==
    (pc = "called" /\ sub.fn = "decode_th_data") =>
        LET b  == sub.byte_array
            th == b[1] + 256 * b[2] + 65536 * b[3]
        IN  IF Len(b) < 6 THEN sub.result = EmptyDict
            ELSE /\ sub.result.temperature = [num |-> (th \div 4096) - 500, den |-> 10]
                 /\ sub.result.humidity = [num |-> th % 4096, den |-> 10]
                 /\ sub.result.pressure = [num |-> b[4] + 256 * b[5], den |-> 100]
                 /\ sub.result.battery = b[6]
                 /\ th = 128648 => /\ sub.result.temperature.num = 31 - 500
                                   /\ sub.result.humidity.num = 1672

\* the block with th = 0x1f688, pressure 100.00 and battery 85 was decoded
C15_Witness ==
    /\ pc = "called"
    /\ sub.fn = "decode_th_data"
    /\ sub.byte_array = <<136, 246, 1, 16, 39, 85>>
    /\ sub.result.temperature = [num |-> 0 - 469, den |-> 10]

\* the number of whole 6-byte blocks after the 6-byte header of a history value
HistoryCount(value) == IF Len(value) < 6 THEN 0 ELSE (Len(value) - 6) \div 6
\* the history sub-records of the frame that hold a whole block
HistoryIndexes == {i \in 1..Len(records) : records[i][1] = 3 /\ HistoryCount(records[i][2]) >= 1}
\* the last of them
LastHistory == CHOOSE i \in HistoryIndexes : \A j \in HistoryIndexes : j <= i

\* C16: a history sub-record with start timestamp T, duration D and k >= 1 whole 6-byte
\* blocks after its 6-byte header sets sensorData to exactly k readings, the i-th
\* (from 0) made from the i-th block, with timestamp T + i * D and dataType "data";
\* bytes after the last whole block make no reading; a frame whose history values are
\* all shorter than 6 bytes or hold no whole block leaves sensorData unset
C16_History ==
    (pc = "decoded" /\ source = "device" /\ \A r \in 1..Len(records) : records[r][1] = 3) =>
        IF HistoryIndexes = {} THEN "sensorData" \notin DOMAIN out_data.value
        ELSE LET value == records[LastHistory][2]
                 T     == Unsigned(SubSeq(value, 1, 4))
                 D     == value[5] + 256 * value[6]
                 k     == HistoryCount(value)
                 data  == out_data.value.sensorData
             IN  /\ Len(data) = k
                 /\ \A i \in 0..(k - 1) :
                       /\ data[i + 1].timestamp = T + i * D
                       /\ data[i + 1].dataType = "data"
                       /\ data[i + 1].battery = value[6 + 6 * i + 6]
                       /\ data[i + 1].pressure.num
                              = value[6 + 6 * i + 4] + 256 * value[6 + 6 * i + 5]

\* a history value with duration 60, three blocks and five more bytes gave three
\* readings, after a sub-record with a header and no block
C16_Witness ==
    /\ pc = "decoded" /\ source = "device"
    /\ Len(records) = 2
    /\ Len(records[1][2]) = 6
    /\ Len(records[2][2]) = 29
    /\ Len(out_data.value.sensorData) = 3
    /\ out_data.value.sensorData[3].timestamp = 1708154368 + 120
    /\ out_data.value.sensorData[3].battery = 255

\* the realtime sub-records of the frame with a value of at least 11 bytes
RealtimeIndexes == {i \in 1..Len(records) : records[i][1] = 20 /\ Len(records[i][2]) >= 11}
\* the last of them
LastRealtime == CHOOSE i \in RealtimeIndexes : \A j \in RealtimeIndexes : j <= i

\* C17: a realtime sub-record with a value of at least 11 bytes sets sensorData to one
\* reading: timestamp the little-endian integer of bytes [0:4), the TH-block fields of
\* bytes [4:10), rssi byte 10 read as signed (b - 256 for b >= 128) and dataType
\* "event"; a frame whose realtime values are all shorter than 11 bytes sets no sensorData
C17_Realtime ==
    (pc = "decoded" /\ source = "device" /\ \A r \in 1..Len(records) : records[r][1] = 20) =>
        IF RealtimeIndexes = {} THEN "sensorData" \notin DOMAIN out_data.value
        ELSE LET value == records[LastRealtime][2]
                 th    == value[5] + 256 * value[6] + 65536 * value[7]
                 data  == out_data.value.sensorData
             IN  /\ Len(data) = 1
                 /\ data[1].timestamp = Unsigned(SubSeq(value, 1, 4))
                 /\ data[1].temperature = [num |-> (th \div 4096) - 500, den |-> 10]
                 /\ data[1].humidity = [num |-> th % 4096, den |-> 10]
                 /\ data[1].pressure = [num |-> value[8] + 256 * value[9], den |-> 100]
                 /\ data[1].battery = value[10]
                 /\ data[1].rssi = SignedByte(value[11])
                 /\ data[1].dataType = "event"

\* a realtime value of 14 bytes with rssi byte 0x9c gave one reading with rssi -100,
\* and the 10-byte value after it changed nothing
C17_Witness ==
    /\ pc = "decoded" /\ source = "device"
    /\ Len(records) = 2
    /\ Len(records[1][2]) = 14
    /\ Len(records[2][2]) = 10
    /\ Len(out_data.value.sensorData) = 1
    /\ out_data.value.sensorData[1].rssi = 0 - 100
    /\ out_data.value.sensorData[1].timestamp = 1708154368

\* the two-byte little-endian field at offset off (from 0) of b
U16At(b, off) == b[off + 1] + 256 * b[off + 2]

\* C18: decode_sensor_data_v2 of a block with sub-type byte 10 and at least 23 bytes gives
\* timestamp from bytes [0:4) and the eight fields from consecutive little-endian fields
\* from offset 5: temperature and humidity (two bytes each, over 10), co2, pm25, pm10,
\* tvoc, noise (two bytes each, as they are) and light (four bytes, as it is); sub-types
\* 1, 2, 3, 4 with at least 9, 7, 11, 11 bytes give (temperature, humidity),
\* (temperature), (temperature, humidity, pressure over 100), (temperature, humidity, co2)
C18_CompositeBlock ==
    (pc = "called" /\ sub.fn = "decode_sensor_data_v2" /\ Len(sub.byte_array) >= 5) =>
        LET b  == sub.byte_array
            n  == Len(b)
            t  == b[5]
            ts == [timestamp |-> Unsigned(SubSeq(b, 1, 4))]
        IN  /\ (t = 10 /\ n >= 23) =>
                  sub.result = ts @@ [temperature |-> [num |-> U16At(b, 5), den |-> 10],
                                      humidity    |-> [num |-> U16At(b, 7), den |-> 10],
                                      co2         |-> U16At(b, 9),
                                      pm25        |-> U16At(b, 11),
                                      pm10        |-> U16At(b, 13),
                                      tvoc        |-> U16At(b, 15),
                                      noise       |-> U16At(b, 17),
                                      light       |-> Unsigned(SubSeq(b, 20, 23))]
            /\ (t = 1 /\ n >= 9) =>
                  sub.result = ts @@ [temperature |-> [num |-> U16At(b, 5), den |-> 10],
                                      humidity    |-> [num |-> U16At(b, 7), den |-> 10]]
            /\ (t = 2 /\ n >= 7) =>
                  sub.result = ts @@ [temperature |-> [num |-> U16At(b, 5), den |-> 10]]
            /\ (t = 3 /\ n >= 11) =>
                  sub.result = ts @@ [temperature |-> [num |-> U16At(b, 5), den |-> 10],
                                      humidity    |-> [num |-> U16At(b, 7), den |-> 10],
                                      pressure    |-> [num |-> U16At(b, 9), den |-> 100]]
            /\ (t = 4 /\ n >= 11) =>
                  sub.result = ts @@ [temperature |-> [num |-> U16At(b, 5), den |-> 10],
                                      humidity    |-> [num |-> U16At(b, 7), den |-> 10],
                                      co2         |-> U16At(b, 9)]

\* a block of sub-type 10 and exactly 23 bytes with eight different fields was decoded
C18_Witness ==
    /\ pc = "called"
    /\ sub.fn = "decode_sensor_data_v2"
    /\ sub.byte_array = V2Block(1708154368, 10, <<250, 450, 600, 12, 20, 5, 40>>, 300)
    /\ sub.result.pm25 = 12
    /\ sub.result.pm10 = 20
    /\ sub.result.light = 300

\* a composite sub-record that decodes to a non-empty record: one of at least 5 bytes
IsCompositeRecord(rec) == rec[1] = 133 /\ Len(rec[2]) >= 5
\* the composite sub-records of the frame that decode to a non-empty record, in payload order
CompositeRecords == SelectSeq(records, IsCompositeRecord)

\* C19: when the frame holds at least one tag-0x85 sub-record that decodes to a non-empty
\* record, sensorData is exactly the list of the decoded 0x85 records in payload order,
\* whatever realtime (0x14) and history (0x03) sub-records stand before or after them
C19_CompositeWins ==
    (pc = "decoded" /\ source = "device" /\ CompositeRecords # <<>>) =>
        /\ "sensorData" \in DOMAIN out_data.value
        /\ Len(out_data.value.sensorData) = Len(CompositeRecords)
        /\ \A i \in 1..Len(CompositeRecords) :
              /\ out_data.value.sensorData[i] = decode_sensor_data_v2(CompositeRecords[i][2])
              /\ out_data.value.sensorData[i].timestamp
                     = Unsigned(SubSeq(CompositeRecords[i][2], 1, 4))

\* a frame with a composite block, then a realtime reading, then another composite block
C19_Witness ==
    /\ pc = "decoded" /\ source = "device"
    /\ Len(records) = 3
    /\ records[1][1] = 133 /\ records[2][1] = 20 /\ records[3][1] = 133
    /\ Len(records[2][2]) = 11
    /\ Len(out_data.value.sensorData) = 2
    /\ out_data.value.sensorData[1].timestamp = 2000
    /\ out_data.value.sensorData[2].timestamp = 1000

\* a version sub-record whose value is not UTF-8
IsFailingVersion(rec) == rec[1] \in {17, 52, 53} /\ rec[2] \in InvalidUtf8
IsNotFailingVersion(rec) == ~IsFailingVersion(rec)
\* the tag of each version field
VersionTag == [version |-> 17, versionModel |-> 52, versionMcu |-> 53]

\* C20: when the values of version sub-records (tags 0x11, 0x34, 0x35) are not UTF-8,
\* the result is the one for the frame without those sub-records: every other
\* sub-record, before and after, is interpreted the same; a version field no other
\* sub-record sets is absent; the result is not the empty record and nothing is raised
C20_InvalidVersion ==
    (pc = "decoded" /\ source = "device" /\ \E i \in 1..Len(records) : IsFailingVersion(records[i]))
    =>
        /\ out_data = tlv_decode(DeviceFrame(65, SelectSeq(records, IsNotFailingVersion)))
        /\ out_data.value # EmptyDict
        /\ out_data.caught = None
        /\ \A field \in DOMAIN VersionTag :
              (\A i \in 1..Len(records) :
                   records[i][1] = VersionTag[field] => IsFailingVersion(records[i]))
              => field \notin DOMAIN out_data.value
        /\ \A i \in 1..Len(records) :
              /\ records[i][1] = 4 => out_data.value.reportInterval = 10
              /\ records[i][1] = 100 => out_data.value.battery = 85

\* a frame with a report interval, a version that is no UTF-8, and a battery percentage
C20_Witness ==
    /\ pc = "decoded" /\ source = "device"
    /\ records = <<<<4, <<10, 0>>>>, <<17, <<255>>>>, <<100, <<85>>>>>>
    /\ out_data.value = [productId |-> 0, reportInterval |-> 10, battery |-> 85]


NotRepresentable(value, length, signed) ==
    IF signed
    THEN IF length = 0 THEN TRUE
         ELSE length < 4 /\ (value < 0 - 128 * Pow256(length - 1)
                              \/ value > 128 * Pow256(length - 1) - 1)
    ELSE value < 0 \/ (length < 4 /\ value >= Pow256(length))

FullLayout == (1 :> 9) @@ (2 :> 7) @@ (3 :> 11) @@ (4 :> 11) @@ (10 :> 23)

\* C23: a tag-0x85 value of at least 5 bytes whose sub-type is 1, 2, 3, 4 or 10 but that
\* is shorter than that sub-type's full layout (9, 7, 11, 11, 23 bytes), or whose
\* sub-type is any other value, decodes to a record holding the timestamp and nothing
\* else, which is what sensorData then holds; a value shorter than 5 bytes decodes to
\* the empty record and the result has no sensorData
C23_TimestampOnly ==
    (pc = "decoded" /\ source = "device" /\ SubPacks # <<>> /\ SubPacks[1].key = "85") =>
        LET b == SubPacks[1].payload
            n == Len(b)
        IN  /\ n < 5 =>
                  /\ decode_sensor_data_v2(b) = EmptyDict
                  /\ "sensorData" \notin DOMAIN out_data.value
            /\ (n >= 5 /\ (b[5] \notin DOMAIN FullLayout \/ n < FullLayout[b[5]])) =>
                  /\ decode_sensor_data_v2(b) = [timestamp |-> Unsigned(SubSeq(b, 1, 4))]
                  /\ "sensorData" \in DOMAIN out_data.value
                  /\ out_data.value.sensorData = <<[timestamp |-> Unsigned(SubSeq(b, 1, 4))]>>

\* a block of sub-type 10 cut to 22 bytes, one short of its layout, was decoded to its
\* timestamp alone
C23_Witness ==
    /\ pc = "decoded" /\ source = "device"
    /\ SubPacks # <<>>
    /\ SubPacks[1].key = "85"
    /\ SubPacks[1].len = 22
    /\ SubPacks[1].payload[5] = 10
    /\ out_data.value.sensorData = <<[timestamp |-> 1076895760]>>


\* a realtime or history sub-record that decodes to a non-empty result: a realtime value
\* of at least 11 bytes, a history value with at least one whole block
IsListRecord(rec) ==
    \/ rec[1] = 20 /\ Len(rec[2]) >= 11
    \/ rec[1] = 3 /\ HistoryCount(rec[2]) >= 1
\* where they stand in the frame
ListIndexes == {i \in 1..Len(records) : IsListRecord(records[i])}
\* the last of them
LastList == CHOOSE i \in ListIndexes : \A j \in ListIndexes : j <= i

\* C24: in a frame without a 0x85 sub-record, sensorData is what the last realtime or
\* history sub-record that decodes to a non-empty result decodes to, and nothing else:
\* one record from a realtime value, one per whole block from a history value, the
\* first carrying the timestamp in its bytes [0:4); sub-records too short to decode,
\* after it or before, change nothing; without such a sub-record there is no sensorData
C24_LastListWins ==
    (pc = "decoded" /\ source = "device" /\ \A i \in 1..Len(records) : records[i][1] # 133) =>
        IF ListIndexes = {} THEN "sensorData" \notin DOMAIN out_data.value
        ELSE LET rec == records[LastList]
             IN  /\ "sensorData" \in DOMAIN out_data.value
                 /\ out_data.value.sensorData =
                       IF rec[1] = 20 THEN <<decode_realtime_data(rec[2], 0)>>
                       ELSE decode_history_data(rec[2], 0)
                 /\ Len(out_data.value.sensorData) =
                       IF rec[1] = 20 THEN 1 ELSE HistoryCount(rec[2])
                 /\ out_data.value.sensorData[1].timestamp = Unsigned(SubSeq(rec[2], 1, 4))
                 /\ out_data.value.sensorData[1].dataType =
                       IF rec[1] = 20 THEN "event" ELSE "data"

\* a history block of two readings, then a realtime reading, then a realtime value too
\* short to decode: sensorData is the one realtime reading
C24_Witness ==
    /\ pc = "decoded" /\ source = "device"
    /\ Len(records) = 3
    /\ records[1][1] = 3 /\ HistoryCount(records[1][2]) = 2
    /\ records[2][1] = 20 /\ Len(records[2][2]) = 11
    /\ records[3][1] = 20 /\ Len(records[3][2]) = 10
    /\ Len(out_data.value.sensorData) = 1
    /\ out_data.value.sensorData[1].timestamp = 1000
    /\ out_data.value.sensorData[1].rssi = 127


\* where the product-id sub-records stand among those the walk parsed
ProductIndexes == {i \in 1..Len(SubPacks) : SubPacks[i].key = "38"}
\* the last of them
LastProduct == CHOOSE i \in ProductIndexes : \A j \in ProductIndexes : j <= i

\* C25 as stated: productId is the first value byte of a tag-0x38 sub-record the walk
\* reached when it reached one that has a value byte, 0 when it reached no tag-0x38
\* sub-record, and tlv_decode's productId is tlv_unpack's
C25_FirstValueByte ==
    (pc = "decoded" /\ source = "device") =>
        /\ ProductIndexes = {} => unpack_data.value.productId = 0
        /\ (\E i \in ProductIndexes : SubPacks[i].len >= 1) =>
              \E i \in ProductIndexes :
                  /\ SubPacks[i].len >= 1
                  /\ unpack_data.value.productId = SubPacks[i].payload[1]
        /\ out_data.value.productId = unpack_data.value.productId

\* C25 amended: productId is the first value byte of the last tag-0x38 sub-record the
\* walk parsed, 0 when that sub-record has no value byte or the walk parsed none;
\* tlv_decode's productId is tlv_unpack's; an undamaged frame has all its sub-records
\* parsed, and in a damaged one only the parsed ones count
C25_LastProductId ==
    (pc = "decoded" /\ source = "device") =>
        /\ unpack_data.value.productId =
              IF ProductIndexes = {} THEN 0
              ELSE IF SubPacks[LastProduct].len >= 1 THEN SubPacks[LastProduct].payload[1]
              ELSE 0
        /\ out_data.value.productId = unpack_data.value.productId
        /\ edits = 0 => Len(SubPacks) = Len(records)

\* the length field of the first sub-record (tag 0x38, value 09 01) was overwritten
\* with 1: the walk parsed it with value 09 and ended at what followed, so the tag-0x38
\* sub-record with value 7 behind it did not count
C25_Witness ==
    /\ pc = "decoded" /\ source = "device"
    /\ edits = 1
    /\ records = <<<<56, <<9, 1>>>>, <<56, <<7>>>>>>
    /\ Len(SubPacks) = 1
    /\ SubPacks[1].payload = <<9>>
    /\ unpack_data.value.productId = 9
    /\ out_data.value.productId = 9


\* the tags that set each field of the tlv_decode result, productId aside
FieldTags ==
    [version |-> {17}, versionModel |-> {52}, versionMcu |-> {53}, reportInterval |-> {4},
     collectInterval |-> {5}, battery |-> {100, 9}, signalStrength |-> {101},
     usbPluggedIn |-> {44}, batteryCharging |-> {44}, pmModuleConnected |-> {97},
     pmModuleSerial |-> {97}, deviceStatus |-> {29}, sensorData |-> {20, 3, 133}]

\* C26: each of version, versionModel, versionMcu, reportInterval, collectInterval,
\* battery, signalStrength, usbPluggedIn, batteryCharging, pmModuleConnected,
\* pmModuleSerial, deviceStatus and sensorData is in the tlv_decode result only if the
\* frame holds a sub-record with its tag, and the result holds no other field than these
\* and productId: a tag that is absent leaves its field absent, not zero
C26_Sparse ==
    (pc = "decoded" /\ source = "device") =>
        /\ Len(SubPacks) = Len(records)
        /\ \A field \in DOMAIN out_data.value \ {"productId"} :
              /\ field \in DOMAIN FieldTags
              /\ \E i \in 1..Len(records) : records[i][1] \in FieldTags[field]

\* a frame with a battery percentage, a signal strength and a report interval without a
\* value: the result holds productId, battery and signalStrength and nothing else
C26_Witness ==
    /\ pc = "decoded" /\ source = "device"
    /\ records = <<<<4, <<>>>>, <<100, <<85>>>>, <<101, <<156>>>>>>
    /\ out_data.value = [productId |-> 0, battery |-> 85, signalStrength |-> 156]


\* where the charging-flag sub-records with a value byte stand in the frame
ChargingIndexes == {i \in 1..Len(records) : records[i][1] = 44 /\ Len(records[i][2]) >= 1}
\* the last of them
LastCharging == CHOOSE i \in ChargingIndexes : \A j \in ChargingIndexes : j <= i

\* C27: usbPluggedIn and batteryCharging are both absent from the result, or both
\* present and equal; they are present when the frame holds a tag-0x2c sub-record with
\* at least one value byte, both true when the first byte (of the last such sub-record)
\* is 1 and both false for every other byte
C27_ChargingPair ==
    (pc = "decoded" /\ source = "device") =>
        /\ "usbPluggedIn" \in DOMAIN out_data.value <=> "batteryCharging" \in DOMAIN out_data.value
        /\ "usbPluggedIn" \in DOMAIN out_data.value <=> ChargingIndexes # {}
        /\ ChargingIndexes # {} =>
              /\ out_data.value.usbPluggedIn = (records[LastCharging][2][1] = 1)
              /\ out_data.value.batteryCharging = (records[LastCharging][2][1] = 1)
              /\ out_data.value.usbPluggedIn = out_data.value.batteryCharging

\* a frame with the flag 1 and then the flag 2: both fields are false
C27_Witness ==
    /\ pc = "decoded" /\ source = "device"
    /\ records = <<<<44, <<1>>>>, <<44, <<2>>>>>>
    /\ out_data.value.usbPluggedIn = FALSE
    /\ out_data.value.batteryCharging = FALSE


\* where the PM-module sub-records stand in the frame
ModuleIndexes == {i \in 1..Len(records) : records[i][1] = 97}
\* the last of them
LastModule == CHOOSE i \in ModuleIndexes : \A j \in ModuleIndexes : j <= i
\* the serial numbers of ModuleRecords in lower-case hexadecimal
ModuleSerial == (<<171, 205>> :> "abcd") @@ (<<0>> :> "00") @@ (<<10, 255, 1>> :> "0aff01")

\* C28: a tag-0x61 sub-record with a zero-length value sets pmModuleConnected to false;
\* one with a value sets pmModuleConnected to true and pmModuleSerial to the value's
\* bytes in lower-case hexadecimal (the last tag-0x61 sub-record of the frame decides)
C28_ModuleSerial ==
    (pc = "decoded" /\ source = "device" /\ ModuleIndexes # {}) =>
        /\ "pmModuleConnected" \in DOMAIN out_data.value
        /\ IF records[LastModule][2] = <<>>
           THEN out_data.value.pmModuleConnected = FALSE
           ELSE /\ out_data.value.pmModuleConnected = TRUE
                /\ "pmModuleSerial" \in DOMAIN out_data.value
                /\ out_data.value.pmModuleSerial = ModuleSerial[records[LastModule][2]]

\* a module whose serial number is the bytes 0a ff 01
C28_Witness ==
    /\ pc = "decoded" /\ source = "device"
    /\ records = <<<<97, <<>>>>, <<97, <<10, 255, 1>>>>>>
    /\ out_data.value.pmModuleConnected = TRUE
    /\ out_data.value.pmModuleSerial = "0aff01"


\* C29: in every tlv_decode result pmModuleSerial is present only if pmModuleConnected
\* is present and true, whatever the number and order of tag-0x61 sub-records
C29_SerialOnlyIfConnected ==
    (pc = "decoded" /\ source = "device" /\ "pmModuleSerial" \in DOMAIN out_data.value) =>
        /\ "pmModuleConnected" \in DOMAIN out_data.value
        /\ out_data.value.pmModuleConnected = TRUE


\* C30: the decoder does not validate the checksum: what tlv_unpack and tlv_decode
\* return for a buffer is what they return for its first 5 + L bytes (L the declared
\* payload length), and a frame whose bytes after offset 5 + L were changed, removed or
\* followed by more bytes decodes to what the untouched frame decodes to
C30_TailIgnored ==
    (pc = "decoded" /\ source = "device") =>
        /\ unpack_data = tlv_unpack(Slice(byte_array, 0, 5 + DeclaredLength))
        /\ out_data = tlv_decode(Slice(byte_array, 0, 5 + DeclaredLength))
        /\ unpack_data = tlv_unpack(DeviceFrame(65, records))
        /\ out_data = tlv_decode(DeviceFrame(65, records))

\* a frame with a battery percentage whose checksum was damaged decodes to the battery
\* percentage
C30_Witness ==
    /\ pc = "decoded" /\ source = "device"
    /\ records = <<<<100, <<85>>>>>>
    /\ Len(byte_array) = 11
    /\ SubSeq(byte_array, 10, 11) # SubSeq(DeviceFrame(65, records), 10, 11)
    /\ "battery" \in DOMAIN out_data.value
    /\ out_data.value.battery = 85
    /\ Len(SubPacks) = 1


RECURSIVE Wire(_)
\* the bytes of a list of parsed sub-records on the wire: tag, length (two bytes, low
\* byte first), value
Wire(sub_pack_list) ==
    IF sub_pack_list = <<>> THEN <<>>
    ELSE LET p == Head(sub_pack_list)
         IN  <<CHOOSE t \in 0..255 : Hex(<<t>>) = p.key, p.len % 256, p.len \div 256>>
             \o p.payload \o Wire(Tail(sub_pack_list))

RECURSIVE WireLength(_)
\* the sum of 3 + len over a list of parsed sub-records
WireLength(sub_pack_list) ==
    IF sub_pack_list = <<>> THEN 0
    ELSE 3 + Head(sub_pack_list).len + WireLength(Tail(sub_pack_list))

\* C31: in every state of tlv_unpack's walk and in the list it returns, each
\* sub-record's len equals the number of bytes of its value, the sub-records are the
\* payload's first index bytes in wire order, and index = the sum of 3 + len over the
\* sub-records <= the declared payload length <= len(buffer) - 5
C31_WalkStructure ==
    (calls[1].fn = "tlv_unpack" /\ calls[1].at \in {"loop", "done"}) =>
        LET list == IF calls[1].at = "done" THEN calls[1].result.value.subPackList
                    ELSE calls[1].sub_pack_list
        IN  /\ \A k \in 1..Len(list) : list[k].len = Len(list[k].payload)
            /\ list = calls[1].sub_pack_list
            /\ Wire(list) = Slice(calls[1].arg, 5, 5 + WireLength(list))
            /\ Len(Wire(list)) = WireLength(list)
            /\ (calls[1].at = "loop" \/ list # <<>>) =>
                  /\ calls[1].index = WireLength(list)
                  /\ calls[1].index <= calls[1].length
                  /\ calls[1].length = calls[1].arg[4] + 256 * calls[1].arg[5]
                  /\ calls[1].length <= Len(calls[1].arg) - 5

\* a frame of three sub-records whose second has its length byte damaged, at the end
\* of the walk: two sub-records parsed, index 8 of 10
C31_Witness ==
    /\ calls[1].fn = "tlv_unpack"
    /\ calls[1].at = "done"
    /\ records = <<<<56, <<7>>>>, <<100, <<>>>>, <<100, <<>>>>>>
    /\ edits = 1
    /\ calls[1].index = 8
    /\ calls[1].length = 10
    /\ Len(calls[1].result.value.subPackList) = 2


\* call 1 is in the loop of fn
InLoop(fn) == calls[1].fn = fn /\ calls[1].at = "loop"

\* C32: the walk of tlv_unpack and the loop of decode_history_data end for every
\* input: a step taken inside the walk raises index by at least 3, one inside the
\* history loop by exactly 6, index never passes the payload's length (the value's
\* length), at most floor(L / 3) sub-records and floor((n - 6) / 6) readings are
\* produced, and a call in either loop returns
C32_LoopsTerminate ==
    /\ [][(InLoop("tlv_unpack") /\ InLoop("tlv_unpack")')
             => calls[1].index' >= calls[1].index + 3]_vars
    /\ [][(InLoop("decode_history_data") /\ InLoop("decode_history_data")')
             => calls[1].index' = calls[1].index + 6]_vars
    /\ [](calls[1].fn = "tlv_unpack" /\ calls[1].at # "idle" =>
             /\ calls[1].index <= calls[1].length
             /\ Len(calls[1].sub_pack_list) <= calls[1].length \div 3
             /\ calls[1].at = "done" =>
                   Len(calls[1].result.value.subPackList) <= calls[1].result.value.length \div 3)
    /\ [](calls[1].fn = "decode_history_data" /\ calls[1].at = "loop" =>
             /\ calls[1].index <= Len(calls[1].arg)
             /\ Len(calls[1].data_list) <= (Len(calls[1].arg) - 6) \div 6)
    /\ [](calls[1].fn = "decode_history_data" /\ calls[1].at = "done" =>
             /\ Len(calls[1].result.value) <= (IF Len(calls[1].arg) < 6 THEN 0
                                               ELSE (Len(calls[1].arg) - 6) \div 6))
    /\ InLoop("tlv_unpack") ~> (calls[1].fn = "tlv_unpack" /\ calls[1].at = "done")
    /\ InLoop("decode_history_data")
          ~> (calls[1].fn = "decode_history_data" /\ calls[1].at = "done")

\* a history value of 24 bytes was walked to its end: three readings, index 24
C32_Witness ==
    /\ calls[1].fn = "decode_history_data"
    /\ calls[1].at = "done"
    /\ Len(calls[1].arg) = 24
    /\ calls[1].index = 24
    /\ Len(calls[1].result.value) = 3


RECURSIVE PayloadLength(_)
\* P: the sum of 3 + len(value) over the items of a dict
PayloadLength(items) ==
    IF items = <<>> THEN 0 ELSE 3 + Len(Head(items)[2]) + PayloadLength(Tail(items))

\* C33: a frame tlv_encode returns is 7 + P bytes long and its length field holds P,
\* the sum of 3 + len(value) over the records; when P exceeds 65535 the call fails
\* although every value has at most 65535 bytes
C33_TotalLength ==
    pc = "encoded" =>
        /\ ~message.raised =>
              /\ Len(message.value) = 7 + PayloadLength(packets)
              /\ message.value[4] + 256 * message.value[5] = PayloadLength(packets)
        /\ (PayloadLength(packets) > 65535
              /\ \A k \in 1..Len(packets) : Len(packets[k][2]) <= 65535) => message.raised

\* four values of 16381 bytes make a payload of 65536 bytes: the call fails
C33_Witness ==
    /\ pc = "encoded"
    /\ Len(packets) = 4
    /\ \A k \in 1..4 : Len(packets[k][2]) = 16381
    /\ message.raised
    /\ message.exc = "OverflowError"


\* the calls of publish_setting_change for the key k, in the order they were made
CallsFor(k) == {t \in 1..Len(hass.tasks) : hass.tasks[t].key = k}
\* the messages published for the key k
PublishedFor(k) == {i \in 1..Len(hass.published) : hass.published[i][1] = k}
\* every call for k arrived before a message for k was published
Rapid(k) ==
    \A t \in CallsFor(k) : \A i \in PublishedFor(k) : i > hass.tasks[t].seen
\* every task is over
Settled == \A t \in 1..Len(hass.tasks) : hass.tasks[t].at \in {"done", "cancelled"}

\* C34: when two or more calls of publish_setting_change for one key each arrive
\* before the delayed publish of the call before has fired, every earlier pending
\* publish is cancelled and exactly one message is published for the key, with the
\* value of the last call; calls for different keys do not cancel each other
C34_Debounce ==
    Settled =>
        \A k \in SettingKeys :
            (CallsFor(k) # {} /\ Rapid(k)) =>
                LET last == CHOOSE t \in CallsFor(k) : \A u \in CallsFor(k) : u <= t
                IN  /\ \A t \in CallsFor(k) \ {last} : hass.tasks[t].at = "cancelled"
                    /\ hass.tasks[last].at = "done"
                    /\ Cardinality(PublishedFor(k)) = 1
                    /\ \A i \in PublishedFor(k) : hass.published[i][2] = hass.tasks[last].value


\* the timeout in seconds: 300 for JSON models and for TLV models in realtime report
\* mode, 900 for TLV models in historic report mode (the mode of a device whose report
\* mode is not set)
ExpectedTimeout ==
    IF hass.model \in {"CGS1", "CGS2", "CGDN1"} THEN 300
    ELSE IF hass.report_mode = "realtime" THEN 300
    ELSE 900

\* C35: after every _update_status call on a status sensor attached to the host, the
\* status is "online" iff current time - timestamp of the last message <= timeout; the
\* status starts as "offline" and stays "offline" until a message is received
C35_StatusByTimeout ==
    /\ (hass.attached /\ hass.event = "update") =>
          (hass.native_value = "online"
              <=> hass.now - hass.last_timestamp <= ExpectedTimeout)
    /\ hass.last_timestamp = 0 => hass.native_value = "offline"

\* a TLV device in historic mode whose last message is 900 seconds old is online after
\* the timer's update
C35_Witness ==
    /\ hass.attached
    /\ hass.event = "update"
    /\ hass.model = "CGP22C"
    /\ hass.report_mode = "historic"
    /\ hass.last_timestamp > 0
    /\ hass.now - hass.last_timestamp = 900
    /\ hass.native_value = "online"


\* C36: every change of the status sensor's value from "offline" to "online" schedules
\* a config publish, and _update_status schedules none on any other transition or when
\* the status is unchanged
C36_PublishOnOnline ==
    [][IF hass.native_value = "offline" /\ hass'.native_value = "online"
       THEN hass'.config_tasks = hass.config_tasks + 1
       ELSE hass'.config_tasks = hass.config_tasks]_vars


\* the positions of the publish attempts in what the call did
Attempts ==
    {i \in 1..Len(hass.config_log) : hass.config_log[i] \in PublishOutcomes}

\* the connection checks since the last publish attempt or the call's beginning
ChecksSince ==
    {i \in 1..Len(hass.config_log) :
        /\ hass.config_log[i] \in {"connected", "not connected"}
        /\ \A j \in Attempts : j < i}

\* C37: publish_config makes at most 3 publish attempts and always terminates: it stops
\* at the first successful publish, makes another attempt only after a failed attempt
\* raised HomeAssistantError, and returns without attempting a publish as soon as MQTT
\* is found not connected (after at most 5 connection checks)
C37_PublishConfigRetries ==
    /\ [](Cardinality(Attempts) <= 3)
    /\ [](\A i \in Attempts :
            /\ i > 1 /\ hass.config_log[i - 1] = "connected"
            /\ \A j \in Attempts : j < i => hass.config_log[j] = "HomeAssistantError")
    /\ []((\E i \in Attempts : hass.config_log[i] = "published") =>
            /\ hass.config_at = "returned"
            /\ hass.config_log[Len(hass.config_log)] = "published")
    /\ [](Cardinality(ChecksSince) <= 5)
    /\ []((Cardinality(ChecksSince) = 5
              /\ \A i \in ChecksSince : hass.config_log[i] = "not connected") =>
            hass.config_at = "returned")
    /\ [][hass.config_at \in {"returned", "raised"} =>
             hass'.config_log = <<>>]_vars
    /\ [](hass.config_at \in {"ensure", "publish"} =>
             <>(hass.config_at \in {"returned", "raised"}))

\* a call that made three attempts, each failing with HomeAssistantError, the second
\* after four failed connection checks, and returned
C37_Witness ==
    /\ hass.config_at = "returned"
    /\ hass.config_log = <<"connected", "HomeAssistantError",
                           "not connected", "not connected", "not connected",
                           "not connected", "connected", "HomeAssistantError",
                           "connected", "HomeAssistantError">>


\* the tasks of the automatic switch that ran up to their publish or further
StartedSwitches ==
    SelectSeq(hass.switch_tasks, LAMBDA task : task.at \in {"publishing", "raised", "done"})

\* the number of seconds in tag 0x42 of a command 0x32 with this one tag, or -1
RealtimeSecondsOf(frame) ==
    IF Len(frame) = 12 /\ frame[3] = 50 /\ frame[6] = 66 /\ frame[7] = 2 /\ frame[8] = 0
    THEN frame[9] + 256 * frame[10]
    ELSE 0 - 1

\* every switch created has run to its end, and the last one created set the mode
LastSwitchCompleted ==
    /\ hass.switch_tasks # <<>>
    /\ \A t \in 1..Len(hass.switch_tasks) : hass.switch_tasks[t].at \in {"raised", "done"}
    /\ hass.switch_tasks[Len(hass.switch_tasks)].at = "done"

\* C38: for any sequence of TLV messages with a charging flag, a switch is issued exactly
\* when the new flag differs from whether the battery-state sensor read "Charging"
\* (initially it does not); charging switches to realtime (tag 0x42 = 21600), not
\* charging to historic (tag 0x42 = 0), only for CGP22C, CGP23W and CGP22W; after the
\* switch completes, the coordinator's and the config entry's report mode are the mode
\* of the latest charging flag
C38_AutoSwitch ==
    /\ [][(hass'.charging_messages # hass.charging_messages /\ hass.battery_attached) =>
            IF hass'.latest_flag # (hass.battery_value = "Charging")
            THEN /\ Len(hass'.switch_tasks) = Len(hass.switch_tasks) + 1
                 /\ hass'.switch_tasks[Len(hass'.switch_tasks)].is_charging = hass'.latest_flag
            ELSE hass'.switch_tasks = hass.switch_tasks]_vars
    /\ [](hass.charging_messages = 0 => hass.battery_value # "Charging")
    /\ [](IF hass.model \in {"CGP22C", "CGP23W", "CGP22W"}
          THEN /\ Len(hass.switch_published) = Len(StartedSwitches)
               /\ \A i \in 1..Len(StartedSwitches) :
                     RealtimeSecondsOf(hass.switch_published[i]) =
                        IF StartedSwitches[i].is_charging THEN 21600 ELSE 0
          ELSE hass.switch_published = <<>>)
    /\ [](LastSwitchCompleted =>
            /\ hass.report_mode = (IF hass.latest_flag THEN "realtime" ELSE "historic")
            /\ hass.entry_mode = hass.report_mode)

====
